---- MODULE Spec2Model ----
(***************************************************************************)
(* A model of the AVM1 dynamic-object runtime: ScriptObject, its property  *)
(* map, accessor (virtual) properties, watchers and the prototype chain    *)
(* (core/src/avm1/object/script_object.rs).                                *)
(*                                                                         *)
(* Objects are numbered 1..objs in order of allocation; 0 stands for a     *)
(* prototype of Value::Undefined and for an absent Option<Object>.         *)
(* Script values are strings: "undefined" is Value::Undefined, the others  *)
(* are opaque script values.  Function objects and plain objects used as   *)
(* getters, setters and watcher callbacks are named by strings too.        *)
(***************************************************************************)
EXTENDS Integers, Sequences, FiniteSets, TLC

VARIABLES
    objs,       \* number of ScriptObjects allocated so far
    prototype,  \* prototype[o]: ScriptObjectData.prototype (0 = Undefined)
    values,     \* values[o]: ScriptObjectData.values, in insertion order
    watchers,   \* watchers[o]: ScriptObjectData.watchers, in insertion order
    array,      \* array[o]: ScriptObjectData.array
    stage,      \* StageData: the sizes, the scale mode and the alignment
    borrows,    \* borrows[o]: the borrow state of the GcCell of object o
    stack,      \* the calls in progress, the innermost last
    last        \* the most recent operation: its arguments, result and callbacks

vars == <<objs, prototype, values, watchers, array, stage, borrows, stack, last>>

\* What the operations on script objects never touch between two calls.
outside == <<stage, borrows, stack>>

heap == <<objs, prototype, values, watchers, array, outside>>
(***************************************************************************)
(* Bounds of the model.                                                    *)
(***************************************************************************)
\* Largest number of objects one behaviour allocates.
MaxObjs == 3

\* Largest number of slots the prototype-chain scenario keeps in the heap.
MaxSlots == 2

\* Largest index an element is written at.
MaxIndex == 1

\* Longest vector the built-ins grow.
MaxLen == 3

\* Width of the index type i32, scaled down.
IndexBits == 4

(***************************************************************************)
(* Values, attributes, callables.                                          *)
(***************************************************************************)
Undefined == "undefined"

DONT_ENUM == "DONT_ENUM"

DONT_DELETE == "DONT_DELETE"

READ_ONLY == "READ_ONLY"


\* Script callables and one plain object, as the environment supplies them:
\*   fConst  a function returning the constant "c"
\*   fThrow  a function that throws a value naming its argument count
\*   fFail   a function whose execution fails with an error that is not a
\*           thrown script value
\*   obj     an object that is not a function
Callables == {"fConst", "fThrow", "fFail", "obj"}

as_executable(f) == f \in {"fConst", "fThrow", "fFail"}

ThrownBy(args) ==
    IF Len(args) = 0 THEN "e0" ELSE IF Len(args) = 1 THEN "e1" ELSE "e4"

Ok(v) == [kind |-> "Ok", val |-> v]

Thrown(v) == [kind |-> "Thrown", val |-> v]

Failed == [kind |-> "Error", val |-> Undefined]

\* The thread panicked: the call never returned.
Panicked == [kind |-> "Panic", val |-> Undefined]

None == [kind |-> "None", val |-> Undefined]

Bool(b) == [kind |-> IF b THEN "true" ELSE "false", val |-> Undefined]

\* Executable::exec: the result of running callable f on args.
exec(f, args) ==
    CASE f = "fConst" -> Ok("c")
      [] f = "fThrow" -> Thrown(ThrownBy(args))
      [] OTHER -> Failed

\* One callback invocation, as recorded in last.calls: the label, callable,
\* receiver, base prototype and arguments handed to Executable::exec, and the
\* value map of the object as the callback finds it when it starts.
Call(label, f, this, base_proto, args, sees) ==
    [label |-> label, fn |-> f, this |-> this, base_proto |-> base_proto,
     args |-> args, sees |-> sees]

(***************************************************************************)
(* PropertyMap: an insertion-ordered map from names to V with lookup under *)
(* a case-sensitivity policy.                                              *)
(***************************************************************************)
\* ASCII case folding of the names the model uses.
Fold(name) ==
    CASE name = "A" -> "a"
      [] name = "B" -> "b"
      [] name = "Length" -> "length"
      [] OTHER -> name

KeyMatches(key, name, case_sensitive) ==
    IF case_sensitive THEN key = name ELSE Fold(key) = Fold(name)

\* Position of the slot a lookup of name finds, 0 when there is none.
MapIndex(map, name, case_sensitive) ==
    LET hits == {i \in 1..Len(map) : KeyMatches(map[i].key, name, case_sensitive)}
    IN  IF hits = {} THEN 0 ELSE CHOOSE i \in hits : \A j \in hits : i <= j

contains_key(map, name, case_sensitive) == MapIndex(map, name, case_sensitive) # 0

\* PropertyMap::insert: an occupied slot keeps its key and position.
MapInsert(map, name, v, case_sensitive) ==
    LET i == MapIndex(map, name, case_sensitive)
    IN  IF i = 0 THEN Append(map, [key |-> name, val |-> v])
        ELSE [map EXCEPT ![i].val = v]

\* PropertyMap::remove: the later slots move up, keeping their order.
MapRemove(map, name, case_sensitive) ==
    LET i == MapIndex(map, name, case_sensitive)
    IN  IF i = 0 THEN map
        ELSE [j \in 1..(Len(map) - 1) |-> IF j < i THEN map[j] ELSE map[j + 1]]

MapKeys(map) == [i \in 1..Len(map) |-> map[i].key]

(***************************************************************************)
(* Property: a Stored value or a Virtual accessor pair, with attributes.   *)
(***************************************************************************)
Stored(v, attributes) ==
    [kind |-> "Stored", value |-> v, attributes |-> attributes]

Virtual(get, set, attributes) ==
    [kind |-> "Virtual", get |-> get, set |-> set, attributes |-> attributes]


is_enumerable(p) == DONT_ENUM \notin p.attributes

can_delete(p) == DONT_DELETE \notin p.attributes

\* Property::set: the property afterwards and the setter to call ("none"
\* when there is nothing to call).
property_set(p, v) ==
    IF p.kind = "Virtual" THEN [prop |-> p, setter |-> p.set]
    ELSE [prop |-> IF READ_ONLY \in p.attributes THEN p
                   ELSE [p EXCEPT !.value = v],
          setter |-> "none"]

(***************************************************************************)
(* Watcher.                                                                *)
(***************************************************************************)
Watcher(callback, user_data) == [callback |-> callback, user_data |-> user_data]

\* A variant of Watcher::call in which a callback that is not invocable lets
\* the new value through.
watcher_call_passes_value(watcher, name, old_value, new_value, this, base_proto, sees) ==
    LET args == <<name, old_value, new_value, watcher.user_data>>
    IN  IF as_executable(watcher.callback)
        THEN [res |-> exec(watcher.callback, args),
              calls |-> <<Call(name, watcher.callback, this, base_proto, args, sees)>>]
        ELSE [res |-> Ok(new_value), calls |-> <<>>]

\* Watcher::call
watcher_call(watcher, name, old_value, new_value, this, base_proto, sees) ==
    LET args == <<name, old_value, new_value, watcher.user_data>>
    IN  IF as_executable(watcher.callback)
        THEN [res |-> exec(watcher.callback, args),
              calls |-> <<Call(name, watcher.callback, this, base_proto, args, sees)>>]
        ELSE [res |-> Ok(Undefined), calls |-> <<>>]

(***************************************************************************)
(* ScriptObject: reading.                                                  *)
(***************************************************************************)
\* The result of a getter as get_local hands it on: a thrown value stays a
\* failure, any other failure reads as Undefined.
getter_result(r) ==
    CASE r.kind = "Ok" -> r
      [] r.kind = "Thrown" -> r
      [] OTHER -> Ok(Undefined)

\* get_local once the slot p is found.
get_local_slot(p, self, this, sees) ==
    IF p.kind = "Stored" THEN [res |-> Ok(p.value), calls |-> <<>>]
    ELSE IF as_executable(p.get)
    THEN [res |-> getter_result(exec(p.get, <<>>)),
          calls |-> <<Call("[Getter]", p.get, this, self, <<>>, sees)>>]
    ELSE [res |-> None, calls |-> <<>>]

\* ScriptObject::get_local on object self with the value map vals[self].
get_local(vals, self, name, case_sensitive, this) ==
    IF contains_key(vals[self], name, case_sensitive)
    THEN get_local_slot(vals[self][MapIndex(vals[self], name, case_sensitive)].val,
                        self, this, vals[self])
    ELSE [res |-> None, calls |-> <<>>]

\* The answer of the object itself if it has one, else that of its prototype.
first_answer(r, inherited) == IF r.res.kind # "None" THEN r ELSE inherited

\* TObject::get: the first object of the prototype chain of this, starting at
\* p, whose get_local answers; Undefined when the chain ends.
RECURSIVE search_prototype(_, _, _, _, _, _)
search_prototype(vals, protos, p, name, case_sensitive, this) ==
    IF p = 0 THEN [res |-> Ok(Undefined), calls |-> <<>>]
    ELSE first_answer(get_local(vals, p, name, case_sensitive, this),
                      search_prototype(vals, protos, protos[p], name,
                                       case_sensitive, this))

get(vals, protos, self, name, case_sensitive) ==
    search_prototype(vals, protos, self, name, case_sensitive, self)

(***************************************************************************)
(* ScriptObject::set_local, in its three steps.                            *)
(***************************************************************************)
Unit == Ok(Undefined)

\* A variant of watcher_outcome that goes on with the caller's value when the
\* watcher call fails.
watcher_outcome_keeps_value(old, r, value) ==
    [done |-> FALSE,
     value |-> IF r.res.kind = "Ok" THEN r.res.val ELSE value,
     result |-> IF r.res.kind = "Thrown" THEN r.res ELSE Unit,
     calls |-> old.calls \o r.calls]

\* What step 1 yields from the watcher's result r: the value to go on with
\* and the tentative result.
watcher_outcome(old, r, value) ==
    [done |-> FALSE,
     value |-> IF r.res.kind = "Ok" THEN r.res.val ELSE Undefined,
     result |-> IF r.res.kind = "Thrown" THEN r.res ELSE Unit,
     calls |-> old.calls \o r.calls]

\* A variant of set_local_watch_old that calls the watcher also when the read
\* of the old value has thrown.
set_local_watch_old_anyway(old, watcher, name, value, this, base_proto, sees) ==
    watcher_outcome(old,
                    watcher_call(watcher, name,
                                 IF old.res.kind = "Thrown" THEN Undefined
                                 ELSE old.res.val,
                                 value, this, base_proto, sees),
                    value)

\* Step 1 once the old value has been read: a thrown failure of the read ends
\* set_local, otherwise the watcher is called.
set_local_watch_old(old, watcher, name, value, this, base_proto, sees) ==
    IF old.res.kind = "Thrown"
    THEN [done |-> TRUE, value |-> value, result |-> old.res, calls |-> old.calls]
    ELSE watcher_outcome(old,
                         watcher_call(watcher, name, old.res.val, value, this,
                                      base_proto, sees),
                         value)

\* A variant of step 1 in which a watcher only sees the sets of a name the
\* object has a slot for.
set_local_watch_own_slot(vals, wats, protos, self, name, value, case_sensitive, this, base_proto) ==
    IF /\ contains_key(wats[self], name, case_sensitive)
       /\ contains_key(vals[self], name, case_sensitive)
    THEN set_local_watch_old(get(vals, protos, self, name, case_sensitive),
                             wats[self][MapIndex(wats[self], name,
                                                 case_sensitive)].val,
                             name, value, this, base_proto, vals[self])
    ELSE [done |-> FALSE, value |-> value, result |-> Unit, calls |-> <<>>]

\* Step 1: the watcher registered for name, if any, sees the old and the new
\* value and may replace the new one.  done: set_local returns at once.
set_local_watch(vals, wats, protos, self, name, value, case_sensitive, this, base_proto) ==
    IF contains_key(wats[self], name, case_sensitive)
    THEN set_local_watch_old(get(vals, protos, self, name, case_sensitive),
                             wats[self][MapIndex(wats[self], name,
                                                 case_sensitive)].val,
                             name, value, this, base_proto, vals[self])
    ELSE [done |-> FALSE, value |-> value, result |-> Unit, calls |-> <<>>]

\* A variant of step 2 that overwrites an occupied slot with a fresh Stored
\* slot instead of handing the value to Property::set.
set_local_upsert_overwrite(map, name, value, case_sensitive) ==
    [map |-> MapInsert(map, name, Stored(value, {}), case_sensitive),
     setter |-> "none"]

\* The map with the slot at i replaced by what Property::set left, and the
\* setter it handed back.
upsert_occupied(map, i, s) ==
    [map |-> [map EXCEPT ![i].val = s.prop], setter |-> s.setter]

\* A variant of step 2 that looks the name up by its exact spelling whatever
\* the caller's policy.
set_local_upsert_exact(map, name, value, case_sensitive) ==
    IF contains_key(map, name, TRUE)
    THEN upsert_occupied(map, MapIndex(map, name, TRUE),
                         property_set(map[MapIndex(map, name, TRUE)].val, value))
    ELSE [map |-> Append(map, [key |-> name, val |-> Stored(value, {})]),
          setter |-> "none"]

\* Step 2: upsert of (name, value) into the value map.
set_local_upsert(map, name, value, case_sensitive) ==
    IF contains_key(map, name, case_sensitive)
    THEN upsert_occupied(map, MapIndex(map, name, case_sensitive),
                         property_set(map[MapIndex(map, name, case_sensitive)].val,
                                      value))
    ELSE [map |-> Append(map, [key |-> name, val |-> Stored(value, {})]),
          setter |-> "none"]

\* A variant of setter_outcome in which a failure remembered from the watcher
\* is returned instead of the setter's.
setter_outcome_first_failure(r, result) ==
    IF r.kind = "Thrown" /\ result.kind # "Thrown" THEN r ELSE result

\* A thrown failure of the setter replaces the tentative result.
setter_outcome(r, result) == IF r.kind = "Thrown" THEN r ELSE result

\* Step 3: the setter the upsert yielded is called with the value.
set_local_setter(setter, value, this, base_proto, result, sees) ==
    IF setter # "none" /\ as_executable(setter)
    THEN [result |-> setter_outcome(exec(setter, <<value>>), result),
          calls |-> <<Call("[Setter]", setter, this, base_proto, <<value>>,
                           sees)>>]
    ELSE [result |-> result, calls |-> <<>>]

\* What set_local leaves: the map of step 2, the result of step 3, the calls
\* of steps 1 and 3.
set_local_result(w, u, s) ==
    [map |-> u.map, result |-> s.result, calls |-> w.calls \o s.calls]

\* Steps 2 and 3, given what step 1 yielded.
set_local_upsert_setter(map, w, u, this, base_proto) ==
    set_local_result(w, u, set_local_setter(u.setter, w.value, this, base_proto,
                                            w.result, u.map))

set_local_after_watch(map, w, name, case_sensitive, this, base_proto) ==
    IF w.done THEN [map |-> map, result |-> w.result, calls |-> w.calls]
    ELSE set_local_upsert_setter(map, w,
                                 set_local_upsert(map, name, w.value,
                                                  case_sensitive),
                                 this, base_proto)

\* A variant of set_local that upserts the caller's value first and consults
\* the watcher afterwards.
set_local_upsert_first(vals, wats, protos, self, name, value, case_sensitive, this, base_proto) ==
    LET u == set_local_upsert(vals[self], name, value, case_sensitive)
        w == set_local_watch([vals EXCEPT ![self] = u.map], wats, protos, self,
                             name, value, case_sensitive, this, base_proto)
        s == set_local_setter(u.setter, value, this, base_proto, w.result, u.map)
    IN  [map |-> u.map, result |-> s.result, calls |-> w.calls \o s.calls]

\* ScriptObject::set_local
set_local(vals, wats, protos, self, name, value, case_sensitive, this, base_proto) ==
    set_local_after_watch(vals[self],
                          set_local_watch(vals, wats, protos, self, name, value,
                                          case_sensitive, this, base_proto),
                          name, case_sensitive, this, base_proto)

(***************************************************************************)
(* ScriptObject: the other operations on the value map.                    *)
(***************************************************************************)
\* A variant of delete that does not ask can_delete.
delete_unchecked(map, name, case_sensitive) ==
    [map |-> MapRemove(map, name, case_sensitive),
     ret |-> contains_key(map, name, case_sensitive)]

\* ScriptObject::delete
delete(map, name, case_sensitive) ==
    IF /\ contains_key(map, name, case_sensitive)
       /\ can_delete(map[MapIndex(map, name, case_sensitive)].val)
    THEN [map |-> MapRemove(map, name, case_sensitive), ret |-> TRUE]
    ELSE [map |-> map, ret |-> FALSE]

\* ScriptObject::add_property: the lookup is always case-insensitive.
add_property(map, name, getter, setter, attributes) ==
    MapInsert(map, name, Virtual(getter, setter, attributes), FALSE)

\* ScriptObject::define_value: the lookup is always case-sensitive.
define_value(map, name, value, attributes) ==
    MapInsert(map, name, Stored(value, attributes), TRUE)

\* ScriptObject::set_watcher
set_watcher(map, name, callback, user_data, case_sensitive) ==
    MapInsert(map, name, Watcher(callback, user_data), case_sensitive)

\* ScriptObject::remove_watcher
remove_watcher(map, name, case_sensitive) ==
    [map |-> MapRemove(map, name, case_sensitive),
     ret |-> contains_key(map, name, case_sensitive)]

\* ScriptObject::has_own_property
has_own_property(vals, self, name, case_sensitive) ==
    IF name = "__proto__" THEN TRUE
    ELSE contains_key(vals[self], name, case_sensitive)

\* A variant of has_property that looks no further than the prototype.
has_property_one_level(vals, protos, self, name, case_sensitive) ==
    \/ has_own_property(vals, self, name, case_sensitive)
    \/ IF protos[self] # 0
       THEN has_own_property(vals, protos[self], name, case_sensitive)
       ELSE FALSE

\* ScriptObject::has_property
RECURSIVE has_property(_, _, _, _, _)
has_property(vals, protos, self, name, case_sensitive) ==
    \/ has_own_property(vals, self, name, case_sensitive)
    \/ IF protos[self] # 0
       THEN has_property(vals, protos, protos[self], name, case_sensitive)
       ELSE FALSE

\* A variant of get_keys in which only an enumerable local slot hides the
\* prototype's key.
RECURSIVE get_keys_enumerable_shadow(_, _, _, _)
get_keys_enumerable_shadow(vals, protos, self, case_sensitive) ==
    LET proto_keys == IF protos[self] # 0
                      THEN get_keys_enumerable_shadow(vals, protos,
                                                      protos[self], case_sensitive)
                      ELSE <<>>
        Enumerable(e) == is_enumerable(e.val)
        NotLocal(k) == ~contains_key(SelectSeq(vals[self], Enumerable), k,
                                     case_sensitive)
    IN  SelectSeq(proto_keys, NotLocal)
          \o MapKeys(SelectSeq(vals[self], Enumerable))

\* ScriptObject::get_keys
RECURSIVE get_keys(_, _, _, _)
get_keys(vals, protos, self, case_sensitive) ==
    LET proto_keys == IF protos[self] # 0
                      THEN get_keys(vals, protos, protos[self], case_sensitive)
                      ELSE <<>>
        NotLocal(k) == ~contains_key(vals[self], k, case_sensitive)
        Enumerable(e) == is_enumerable(e.val)
    IN  SelectSeq(proto_keys, NotLocal)
          \o MapKeys(SelectSeq(vals[self], Enumerable))

(***************************************************************************)
(* ScriptObject: attributes.                                               *)
(***************************************************************************)
\* The attributes a slot gets from set_attributes.
new_atts(p, set_mask, clear_mask) ==
    [p EXCEPT !.attributes = (p.attributes \ clear_mask) \cup set_mask]

\* ScriptObject::set_attributes with a name: the lookup is always
\* case-insensitive.
set_attributes(map, name, set_mask, clear_mask) ==
    IF contains_key(map, name, FALSE)
    THEN [map EXCEPT ![MapIndex(map, name, FALSE)].val =
                        new_atts(@, set_mask, clear_mask)]
    ELSE map

\* ScriptObject::set_attributes without a name: every slot.
set_attributes_all(map, set_mask, clear_mask) ==
    [i \in 1..Len(map) |->
        [map[i] EXCEPT !.val = new_atts(@, set_mask, clear_mask)]]

(***************************************************************************)
(* ScriptObject: array storage.  A Number is written "#n" to keep it apart *)
(* from the string "n", the name of element n.                             *)
(***************************************************************************)
\* usize::to_string for the indices the model reaches.
Decimal == <<"0", "1", "2", "3", "4", "5", "6", "7", "8", "9">>

to_string(i) == Decimal[i + 1]

\* Value::Number(n) for the lengths the model reaches.
Numbers == <<"#0", "#1", "#2", "#3", "#4", "#5", "#6", "#7", "#8", "#9">>

Number(n) == Numbers[n + 1]

\* ArrayStorage::Vector
VectorStorage(vector) == [kind |-> "Vector", vector |-> vector]

\* The map without its i-th slot (OccupiedEntry::remove_entry).
remove_entry(map, i) ==
    [j \in 1..(Len(map) - 1) |-> IF j < i THEN map[j] ELSE map[j + 1]]

\* A variant of sync_occupied that leaves a DONT_DELETE slot in the map.
sync_occupied_unless_protected(map, i, has_value, native_value) ==
    IF map[i].val.kind = "Stored"
    THEN IF has_value THEN [map EXCEPT ![i].val.value = native_value]
         ELSE IF can_delete(map[i].val) THEN remove_entry(map, i)
         ELSE map
    ELSE map

\* sync_native_property on an occupied entry: only a Stored slot follows the
\* native value.
sync_occupied(map, i, has_value, native_value) ==
    IF map[i].val.kind = "Stored"
    THEN IF has_value THEN [map EXCEPT ![i].val.value = native_value]
         ELSE remove_entry(map, i)
    ELSE map

\* ScriptObject::sync_native_property; has_value = FALSE stands for None.
sync_native_property(map, name, has_value, native_value, enumerable) ==
    IF contains_key(map, name, FALSE)
    THEN sync_occupied(map, MapIndex(map, name, FALSE), has_value, native_value)
    ELSE IF has_value
    THEN Append(map, [key |-> name,
                      val |-> Stored(native_value,
                                     IF enumerable THEN {} ELSE {DONT_ENUM})])
    ELSE map

\* Vec::resize(n, Value::Undefined)
resize(vector, n) ==
    [i \in 1..n |-> IF i <= Len(vector) THEN vector[i] ELSE Undefined]

\* ScriptObject::length
length(arr) == IF arr.kind = "Vector" THEN Len(arr.vector) ELSE arr.length

\* The loop of set_length over to_remove = lo..hi-1.
RECURSIVE sync_removed(_, _, _)
sync_removed(map, lo, hi) ==
    IF lo >= hi THEN map
    ELSE sync_removed(sync_native_property(map, to_string(lo), FALSE, Undefined,
                                           TRUE),
                      lo + 1, hi)

\* ScriptObject::set_length: the map and the storage afterwards.
set_length(map, arr, new_length) ==
    IF arr.kind = "Vector"
    THEN [map |-> sync_native_property(
                      sync_removed(map, new_length, Len(arr.vector)),
                      "length", TRUE, Number(new_length), FALSE),
          array |-> VectorStorage(resize(arr.vector, new_length))]
    ELSE [map |-> sync_native_property(map, "length", TRUE, Number(new_length),
                                       FALSE),
          array |-> [arr EXCEPT !.length = new_length]]

\* ScriptObject::array_element
array_element(map, arr, index) ==
    IF arr.kind = "Vector"
    THEN IF index < Len(arr.vector) THEN arr.vector[index + 1] ELSE Undefined
    ELSE IF /\ index < arr.length
            /\ contains_key(map, to_string(index), FALSE)
            /\ map[MapIndex(map, to_string(index), FALSE)].val.kind = "Stored"
         THEN map[MapIndex(map, to_string(index), FALSE)].val.value
         ELSE Undefined

\* ScriptObject::array
array_values(map, arr) ==
    IF arr.kind = "Vector" THEN arr.vector
    ELSE [i \in 1..arr.length |-> array_element(map, arr, i - 1)]

\* A variant of vector_written that appends a write past the end.
vector_appended(vector, index, value) ==
    IF index >= Len(vector) THEN Append(vector, value)
    ELSE [vector EXCEPT ![index + 1] = value]

\* The vector of set_array_element after the write.
vector_written(vector, index, value) ==
    [resize(vector, IF index >= Len(vector) THEN index + 1 ELSE Len(vector))
        EXCEPT ![index + 1] = value]

\* set_array_element on Vector storage, given the map with the element
\* synchronised and the vector written.
set_vector_element(map, vector) ==
    [map |-> sync_native_property(map, "length", TRUE, Number(Len(vector)), FALSE),
     array |-> VectorStorage(vector),
     ret |-> Len(vector)]

\* ScriptObject::set_array_element: the map, the storage and the length
\* returned.
set_array_element(map, arr, index, value) ==
    IF arr.kind = "Vector"
    THEN set_vector_element(
             sync_native_property(map, to_string(index), TRUE, value, TRUE),
             vector_written(arr.vector, index, value))
    ELSE [map |-> sync_native_property(map, to_string(index), TRUE, value, TRUE),
          array |-> arr,
          ret |-> arr.length]

\* ScriptObject::delete_array_element: the storage afterwards.
delete_array_element(arr, index) ==
    IF arr.kind = "Vector" /\ index < Len(arr.vector)
    THEN VectorStorage([arr.vector EXCEPT ![index + 1] = Undefined])
    ELSE arr

(***************************************************************************)
(* Array built-ins (globals/array.rs).  this is the pair of the value map  *)
(* and the array storage of the receiver; every step goes through the      *)
(* operations of the object.                                               *)
(***************************************************************************)
This(map, arr) == [map |-> map, array |-> arr]

\* this.set_array_element(i, v), the length it returns dropped.
this_set_array_element(this, i, v) ==
    This(set_array_element(this.map, this.array, i, v).map,
         set_array_element(this.map, this.array, i, v).array)

this_array_element(this, i) == array_element(this.map, this.array, i)

this_set_length(this, n) == set_length(this.map, this.array, n)

\* this.delete_array_element(i); this.delete(activation, &i.to_string())
this_delete_element(this, i, case_sensitive) ==
    This(delete(this.map, to_string(i), case_sensitive).map,
         delete_array_element(this.array, i))

\* for i in 0..args.len() { this.set_array_element(at + i, args[i]) }
RECURSIVE set_elements(_, _, _, _)
set_elements(this, at, args, i) ==
    IF i > Len(args) THEN this
    ELSE set_elements(this_set_array_element(this, at + i - 1, args[i]),
                      at, args, i + 1)

\* for i in lo..hi { this.set_array_element(i, this.array_element(i + offset)) }
RECURSIVE copy_ascending(_, _, _, _)
copy_ascending(this, lo, hi, offset) ==
    IF lo >= hi THEN this
    ELSE copy_ascending(
             this_set_array_element(this, lo, this_array_element(this, lo + offset)),
             lo + 1, hi, offset)

\* for i in (lo..hi).rev() { this.set_array_element(i, this.array_element(i + offset)) }
RECURSIVE copy_descending(_, _, _, _)
copy_descending(this, lo, hi, offset) ==
    IF lo >= hi THEN this
    ELSE copy_descending(
             this_set_array_element(this, hi - 1,
                                    this_array_element(this, hi - 1 + offset)),
             lo, hi - 1, offset)

\* for i in lo..hi { this.delete_array_element(i); this.delete(i.to_string()) }
RECURSIVE delete_elements(_, _, _, _)
delete_elements(this, lo, hi, case_sensitive) ==
    IF lo >= hi THEN this
    ELSE delete_elements(this_delete_element(this, lo, case_sensitive),
                         lo + 1, hi, case_sensitive)

\* What a built-in leaves: the receiver and the value returned.
Returned(this, ret) == [this |-> this, ret |-> ret]

\* Array.prototype.push
push(this, args) ==
    Returned(set_elements(this_set_length(this, length(this.array) + Len(args)),
                          length(this.array), args, 1),
             Number(length(this.array) + Len(args)))

\* Array.prototype.unshift
unshift(this, args) ==
    Returned(this_set_length(
                 set_elements(
                     IF length(this.array) > 0
                     THEN copy_descending(this, Len(args),
                                          length(this.array) + Len(args),
                                          0 - Len(args))
                     ELSE this,
                     0, args, 1),
                 length(this.array) + Len(args)),
             Number(length(this.array) + Len(args)))

\* Array.prototype.shift
shift(this, case_sensitive) ==
    IF length(this.array) = 0 THEN Returned(this, Undefined)
    ELSE Returned(this_set_length(
                      this_delete_element(
                          copy_ascending(this, 0, length(this.array) - 1, 1),
                          length(this.array) - 1, case_sensitive),
                      length(this.array) - 1),
                  this_array_element(this, 0))

\* Array.prototype.pop
pop(this, case_sensitive) ==
    IF length(this.array) = 0 THEN Returned(this, Undefined)
    ELSE Returned(this_set_length(
                      this_delete_element(this, length(this.array) - 1,
                                          case_sensitive),
                      length(this.array) - 1),
                  this_array_element(this, length(this.array) - 1))

(***************************************************************************)
(* Index normalisation.  The index is an i32 and the arithmetic is done in *)
(* isize and usize, whose width is that of the target: the width of i32 on *)
(* a 32-bit target (wasm32), twice that on a 64-bit one.  The widths are   *)
(* scaled down from 32 and 64 bits to IndexBits and 2 * IndexBits.         *)
(***************************************************************************)
MinIndex == 0 - 2 ^ (IndexBits - 1)

\* The i32 values.
Index == MinIndex..(2 ^ (IndexBits - 1) - 1)

\* The widths isize can have.
PointerBits == {IndexBits, 2 * IndexBits}

\* -offset in an isize of the given width: the least value has no negative,
\* the negation overflows and, where overflow is not checked, wraps.
negate(offset, bits) ==
    IF offset = 0 - 2 ^ (bits - 1) THEN [overflow |-> TRUE, val |-> offset]
    ELSE [overflow |-> FALSE, val |-> 0 - offset]

\* v as usize
as_usize(v, bits) == IF v < 0 THEN v + 2 ^ bits ELSE v

\* usize::saturating_sub
saturating_sub(a, b) == IF a >= b THEN a - b ELSE 0

\* usize::min
min(a, b) == IF a <= b THEN a ELSE b

\* make_index_absolute: the index returned, and whether the negation
\* overflowed on the way.
make_index_absolute(index, len, bits) ==
    IF index < 0
    THEN [overflow |-> negate(index, bits).overflow,
          val |-> saturating_sub(len, as_usize(negate(index, bits).val, bits))]
    ELSE [overflow |-> FALSE, val |-> min(index, len)]

(***************************************************************************)
(* Array.prototype.splice.  args: empty, or the start, the count if given  *)
(* and the items.                                                          *)
(***************************************************************************)
SpliceArgs(start, has_count, count, items) ==
    [empty |-> FALSE, start |-> start, has_count |-> has_count,
     count |-> count, items |-> items]

NoArgs == [empty |-> TRUE, start |-> 0, has_count |-> FALSE, count |-> 0,
           items |-> <<>>]

\* ScriptObject::array (the factory): empty vector, "length" synchronised.
NewArray ==
    This(sync_native_property(<<>>, "length", TRUE, Number(0), FALSE),
         VectorStorage(<<>>))

\* count.min(old_length as i32 - start as i32).max(0)
to_remove(count, old_length, start) ==
    IF min(count, old_length - start) < 0 THEN 0
    ELSE min(count, old_length - start)

\* The array splice returns: the elements start..start+n-1 of this.
RECURSIVE removed_elements(_, _, _, _, _)
removed_elements(removed, this, start, n, i) ==
    IF i >= n THEN this_set_length(removed, n)
    ELSE removed_elements(
             this_set_array_element(removed, i, this_array_element(this, start + i)),
             this, start, n, i + 1)

\* The tail moves by offset = n - items.len(): from the far end when it
\* moves up, from the near end when it moves down.
splice_move(this, from, new_length, offset) ==
    IF offset < 0 THEN copy_descending(this, from, new_length, offset)
    ELSE copy_ascending(this, from, new_length, offset)

\* splice once start and the number n of elements to remove are known.
splice_at(this, start, n, items, case_sensitive) ==
    [this |-> this_set_length(
                  delete_elements(
                      set_elements(
                          splice_move(this, start + Len(items),
                                      length(this.array) + Len(items) - n,
                                      n - Len(items)),
                          start, items, 1),
                      length(this.array) + Len(items) - n,
                      length(this.array), case_sensitive),
                  length(this.array) + Len(items) - n),
     ret |-> "[object Array]",
     removed |-> removed_elements(NewArray, this, start, n, 0)]

\* splice once the count is known.
splice_count(this, start, count, items, case_sensitive) ==
    IF count < 0
    THEN [this |-> this, ret |-> Undefined, removed |-> NewArray]
    ELSE splice_at(this, start, to_remove(count, length(this.array), start),
                   items, case_sensitive)

\* Array.prototype.splice: the receiver afterwards, the value returned and,
\* when that is an array, the array.
splice(this, args, case_sensitive, bits) ==
    IF args.empty
    THEN [this |-> this, ret |-> Undefined, removed |-> NewArray]
    ELSE splice_count(this,
                      make_index_absolute(args.start, length(this.array), bits).val,
                      IF args.has_count THEN args.count ELSE length(this.array),
                      args.items, case_sensitive)

(***************************************************************************)
(* Array.prototype.concat.  A Value::Object is the name of the object.     *)
(***************************************************************************)
Refs == <<"@1", "@2", "@3", "@4">>

\* Value::Object(o)
Ref(o) == Refs[o]

IsObject(v) == \E o \in 1..Len(Refs) : Refs[o] = v

Deref(v) == CHOOSE o \in 1..Len(Refs) : Refs[o] = v

\* TObject::is_prototype_of: proto is on the prototype chain of the object p
\* is the prototype of.
RECURSIVE is_prototype_of(_, _, _)
is_prototype_of(protos, proto, p) ==
    IF p = 0 THEN FALSE
    ELSE IF p = proto THEN TRUE
    ELSE is_prototype_of(protos, proto, protos[p])

\* Result::unwrap_or(Value::Undefined)
unwrap_or_undefined(r) == IF r.kind = "Ok" THEN r.val ELSE Undefined

\* object.get(&i.to_string(), activation).unwrap_or(Value::Undefined) for i
\* in 0..object.length()
got_elements(vals, arrs, protos, o, case_sensitive) ==
    [i \in 1..length(arrs[o]) |->
        unwrap_or_undefined(get(vals, protos, o, to_string(i - 1),
                                case_sensitive).res)]

\* What one argument adds to the result.
concat_arg(vals, arrs, protos, array_proto, arg, case_sensitive) ==
    IF IsObject(arg) /\ is_prototype_of(protos, array_proto, protos[Deref(arg)])
    THEN got_elements(vals, arrs, protos, Deref(arg), case_sensitive)
    ELSE <<arg>>

RECURSIVE concat_args(_, _, _, _, _, _, _)
concat_args(vals, arrs, protos, array_proto, args, case_sensitive, i) ==
    IF i > Len(args) THEN <<>>
    ELSE concat_arg(vals, arrs, protos, array_proto, args[i], case_sensitive)
            \o concat_args(vals, arrs, protos, array_proto, args,
                           case_sensitive, i + 1)

\* Array.prototype.concat: the new array.
concat(vals, arrs, protos, array_proto, this, args, case_sensitive) ==
    set_elements(NewArray, 0,
                 got_elements(vals, arrs, protos, this, case_sensitive)
                    \o concat_args(vals, arrs, protos, array_proto, args,
                                   case_sensitive, 1),
                 1)

(***************************************************************************)
(* Array.prototype.sort and sortOn.                                        *)
(***************************************************************************)
CASE_INSENSITIVE == "CASE_INSENSITIVE"
DESCENDING == "DESCENDING"
UNIQUE_SORT == "UNIQUE_SORT"
RETURN_INDEXED_ARRAY == "RETURN_INDEXED_ARRAY"
NUMERIC == "NUMERIC"

SortFlags ==
    SUBSET {CASE_INSENSITIVE, DESCENDING, UNIQUE_SORT, RETURN_INDEXED_ARRAY,
            NUMERIC}

\* Ordering::reverse
reverse_ordering(o) ==
    CASE o = "Less" -> "Greater"
      [] o = "Greater" -> "Less"
      [] OTHER -> "Equal"

DEFAULT_ORDERING == "Equal"

\* The numbers among the values, with what they are worth.
NumberValues == <<[v |-> "#1", n |-> 1, s |-> "1"],
                  [v |-> "#2", n |-> 2, s |-> "2"],
                  [v |-> "#10", n |-> 10, s |-> "10"]>>

IsNumber(v) == \E k \in 1..Len(NumberValues) : NumberValues[k].v = v

NumberOf(v) == (CHOOSE k \in 1..Len(NumberValues) : NumberValues[k].v = v)

\* Value::coerce_to_string: a number in decimal, a string as it is, an
\* object as "[object Object]".
coerce_to_string(v) ==
    IF IsNumber(v) THEN NumberValues[NumberOf(v)].s
    ELSE IF IsObject(v) THEN "[object Object]"
    ELSE v

\* The strings the model compares, in the order of str::cmp (byte order).
StringOrder ==
    <<"", "1", "10", "2", "A", "B", "[object Object]", "a", "b", "c", "undefined",
      "x", "y">>

Rank(s) == CHOOSE k \in 1..Len(StringOrder) : StringOrder[k] = s

int_cmp(a, b) == IF a < b THEN "Less" ELSE IF a > b THEN "Greater" ELSE "Equal"

\* str::cmp
str_cmp(a, b) == int_cmp(Rank(a), Rank(b))

\* swf_string_cmp_ignore_case: str::cmp on the strings with the case folded.
swf_string_cmp_ignore_case(a, b) == str_cmp(Fold(a), Fold(b))

sort_compare_string(a, b) == str_cmp(coerce_to_string(a), coerce_to_string(b))

sort_compare_string_ignore_case(a, b) ==
    swf_string_cmp_ignore_case(coerce_to_string(a), coerce_to_string(b))

\* sort_compare_numeric(case_insensitive)
sort_compare_numeric(case_insensitive, a, b) ==
    IF IsNumber(a) /\ IsNumber(b)
    THEN int_cmp(NumberValues[NumberOf(a)].n, NumberValues[NumberOf(b)].n)
    ELSE IF case_insensitive THEN sort_compare_string_ignore_case(a, b)
    ELSE sort_compare_string(a, b)

\* The comparator the flags select when no function is given.
flags_compare(flags, a, b) ==
    IF NUMERIC \in flags
    THEN sort_compare_numeric(CASE_INSENSITIVE \in flags, a, b)
    ELSE IF CASE_INSENSITIVE \in flags
    THEN sort_compare_string_ignore_case(a, b)
    ELSE sort_compare_string(a, b)

\* The numbers a compare function of the model returns, with their values.
CompareResults ==
    <<[v |-> "#-9", n |-> 0 - 9], [v |-> "#-8", n |-> 0 - 8],
      [v |-> "#-1", n |-> 0 - 1], [v |-> "#0", n |-> 0], [v |-> "#1", n |-> 1],
      [v |-> "#8", n |-> 8], [v |-> "#9", n |-> 9]>>

\* The functions scripts hand to sort: cmpNumeric returns a - b for two
\* numbers and NaN otherwise; the other callables are those of exec.
cmpNumeric(a, b) ==
    IF IsNumber(a) /\ IsNumber(b)
    THEN CompareResults[
             CHOOSE k \in 1..Len(CompareResults) :
                 CompareResults[k].n = NumberValues[NumberOf(a)].n
                                         - NumberValues[NumberOf(b)].n].v
    ELSE "#NaN"

\* compare_fn.call("[Compare]", activation, this, None, &[a, b])
call_compare(f, a, b) ==
    IF f = "cmpNumeric" THEN Ok(cmpNumeric(a, b)) ELSE exec(f, <<a, b>>)

\* The match of sort_compare_custom on what the call gave.
ordering_of(ret) ==
    IF \E k \in 1..Len(CompareResults) : CompareResults[k].v = ret
    THEN int_cmp((CHOOSE r \in {CompareResults[k] : k \in 1..Len(CompareResults)} :
                      r.v = ret).n, 0)
    ELSE DEFAULT_ORDERING

\* sort_compare_custom
sort_compare_custom(f, a, b) ==
    ordering_of(unwrap_or_undefined(call_compare(f, a, b)))

\* The comparator of the flags, whether or not a function is given.
sort_compare_by_flags(compare_fn, flags, a, b) ==
    flags_compare(flags, a, b)

\* The compare_fn sort builds from its arguments.
sort_compare(compare_fn, flags, a, b) ==
    IF compare_fn # "none" THEN sort_compare_custom(compare_fn, a, b)
    ELSE flags_compare(flags, a, b)

\* The closure without the reversal.
sort_closure_forward(compare_fn, flags, a, b) ==
    sort_compare(compare_fn, flags, a, b)

\* What the closure handed to sort_unstable_by returns for the elements a
\* and b: the comparator's answer, reversed under DESCENDING.
sort_closure(compare_fn, flags, a, b) ==
    IF DESCENDING \in flags
    THEN reverse_ordering(sort_compare(compare_fn, flags, a, b))
    ELSE sort_compare(compare_fn, flags, a, b)

IndexOrders(n) ==
    {p \in [1..n -> 1..n] : \A i, j \in 1..n : p[i] = p[j] => i = j}

\* The closure found the element at i not to come after that at j, asked
\* either way round; closure[i, j] is its answer for the two.
in_order_by(closure, i, j) ==
    \/ closure[i, j] \in {"Less", "Equal"}
    \/ closure[j, i] \in {"Greater", "Equal"}

\* The same without an answer of Equal.
strictly_in_order_by(closure, i, j) ==
    \/ closure[i, j] = "Less"
    \/ closure[j, i] = "Greater"

\* slice::sort_unstable_by on n pairs (index, value), closure being the
\* table of the closure's answers.  The library fixes neither the order of
\* elements that compare equal nor the pairs it compares: an outcome is an
\* order p of the indices in which the closure found each element not to
\* come after the next, with saw_equal telling whether one of the
\* comparisons made answered Equal.  That can be so when some pair answers
\* Equal, and not so when the neighbours of p can all be told apart.
sort_unstable_by_closure(n, closure) ==
    {[p |-> pe[1], saw_equal |-> pe[2]] :
        pe \in
            {pe \in IndexOrders(n) \X BOOLEAN :
                /\ \A k \in 1..(n - 1) :
                      in_order_by(closure, pe[1][k], pe[1][k + 1])
                /\ pe[2] => \E i, j \in 1..n :
                               i # j /\ closure[i, j] = "Equal"
                /\ ~pe[2] => \A k \in 1..(n - 1) :
                                strictly_in_order_by(closure, pe[1][k],
                                                     pe[1][k + 1])}}

\* The sort with the closure that sort builds.
sort_unstable_by(vs, compare_fn, flags) ==
    sort_unstable_by_closure(
        Len(vs),
        [i, j \in 1..Len(vs) |->
            sort_closure(compare_fn, flags, vs[i], vs[j])])

\* sort_with_function without the test of is_unique.
sort_with_function_never_aborts(this, self, vs, sorted, flags) ==
    IF RETURN_INDEXED_ARRAY \in flags
    THEN [this |-> this, ret |-> "[object Array]",
          result |-> set_elements(this_set_length(NewArray, Len(vs)),
                                  0, [k \in 1..Len(vs) |-> Number(sorted.p[k] - 1)],
                                  1)]
    ELSE [this |-> set_elements(this, 0, [k \in 1..Len(vs) |-> vs[sorted.p[k]]], 1),
          ret |-> Ref(self), result |-> NewArray]

\* sort_with_function that reorders the receiver as well when it returns the
\* indices.
sort_with_function_indexed_in_place(this, self, vs, sorted, flags) ==
    IF UNIQUE_SORT \in flags /\ sorted.saw_equal
    THEN [this |-> this, ret |-> Number(0), result |-> NewArray]
    ELSE [this |-> set_elements(this, 0, [k \in 1..Len(vs) |-> vs[sorted.p[k]]], 1),
          ret |-> IF RETURN_INDEXED_ARRAY \in flags THEN "[object Array]"
                  ELSE Ref(self),
          result |-> IF RETURN_INDEXED_ARRAY \in flags
                     THEN set_elements(this_set_length(NewArray,
                                                       length(this.array)),
                                       0,
                                       [k \in 1..Len(vs) |->
                                           Number(sorted.p[k] - 1)],
                                       1)
                     ELSE NewArray]

\* A variant of sort_with_function that gives the array the length of the
\* sorted values after writing them back.
sort_with_function_truncating(this, self, vs, sorted, flags) ==
    IF UNIQUE_SORT \in flags /\ sorted.saw_equal
    THEN [this |-> this, ret |-> Number(0), result |-> NewArray]
    ELSE IF RETURN_INDEXED_ARRAY \in flags
    THEN [this |-> this, ret |-> "[object Array]",
          result |-> set_elements(this_set_length(NewArray, Len(vs)),
                                  0, [k \in 1..Len(vs) |-> Number(sorted.p[k] - 1)],
                                  1)]
    ELSE [this |-> this_set_length(
                       set_elements(this, 0, [k \in 1..Len(vs) |-> vs[sorted.p[k]]],
                                    1),
                       Len(vs)),
          ret |-> Ref(self), result |-> NewArray]

\* sort_with_function after the sort: sorted is the outcome of
\* sort_unstable_by on this.array().  result is the array the call returns
\* when that is a new one.
sort_with_function(this, self, vs, sorted, flags) ==
    IF UNIQUE_SORT \in flags /\ sorted.saw_equal
    THEN [this |-> this, ret |-> Number(0), result |-> NewArray]
    ELSE IF RETURN_INDEXED_ARRAY \in flags
    THEN [this |-> this, ret |-> "[object Array]",
          result |-> set_elements(this_set_length(NewArray, Len(vs)),
                                  0, [k \in 1..Len(vs) |-> Number(sorted.p[k] - 1)],
                                  1)]
    ELSE [this |-> set_elements(this, 0, [k \in 1..Len(vs) |-> vs[sorted.p[k]]], 1),
          ret |-> Ref(self), result |-> NewArray]

(***************************************************************************)
(* sortOn.  fields is the list of field names of the first argument; the   *)
(* second argument is absent, one number of flags or an array of them.     *)
(***************************************************************************)
NoFlags == [kind |-> "none"]

OneFlags(flags) == [kind |-> "one", flags |-> flags]

FlagsArray(list) == [kind |-> "array", list |-> list]

\* The flags of the first entry, taken for every field.
field_flags_of_first(fields, flags_arg) ==
    CASE flags_arg.kind = "array"
           -> IF Len(flags_arg.list) = Len(fields)
              THEN [k \in 1..Len(fields) |-> flags_arg.list[1]]
              ELSE [k \in 1..Len(fields) |-> {}]
      [] flags_arg.kind = "one" -> [k \in 1..Len(fields) |-> flags_arg.flags]
      [] OTHER -> [k \in 1..Len(fields) |-> {}]

\* The flags of each field.
field_flags(fields, flags_arg) ==
    CASE flags_arg.kind = "array"
           -> IF Len(flags_arg.list) = Len(fields) THEN flags_arg.list
              ELSE [k \in 1..Len(fields) |-> {}]
      [] flags_arg.kind = "one" -> [k \in 1..Len(fields) |-> flags_arg.flags]
      [] OTHER -> [k \in 1..Len(fields) |-> {}]

\* What one round of the loop of sort_compare_fields yields from the two
\* properties read: unwrap panics on a read that failed; an answer other
\* than Equal ends the loop; else the loop goes on, to rest.
compare_field(a, b, field_name, a_prop, b_prop, flags, rest) ==
    IF a_prop.res.kind # "Ok"
    THEN [ret |-> Panicked, reads |-> <<<<a, field_name>>>>]
    ELSE IF b_prop.res.kind # "Ok"
    THEN [ret |-> Panicked, reads |-> <<<<a, field_name>>, <<b, field_name>>>>]
    ELSE IF flags_compare(flags, a_prop.res.val, b_prop.res.val) # "Equal"
    THEN [ret |-> Ok(flags_compare(flags, a_prop.res.val, b_prop.res.val)),
          reads |-> <<<<a, field_name>>, <<b, field_name>>>>]
    ELSE [ret |-> rest.ret,
          reads |-> <<<<a, field_name>>, <<b, field_name>>>> \o rest.reads]

\* The closure sort_compare_fields returns, on the fields from the k-th on:
\* its answer and the properties it read.
RECURSIVE sort_compare_fields(_, _, _, _, _, _, _, _)
sort_compare_fields(vals, protos, names, flags, k, a, b, case_sensitive) ==
    IF k > Len(names) THEN [ret |-> Ok("Equal"), reads |-> <<>>]
    ELSE compare_field(a, b, names[k],
                       get(vals, protos, Deref(a), names[k], case_sensitive),
                       get(vals, protos, Deref(b), names[k], case_sensitive),
                       flags[k],
                       sort_compare_fields(vals, protos, names, flags, k + 1,
                                           a, b, case_sensitive))

\* What the closure handed to sort_unstable_by answers for a and b in
\* sortOn, given what the closure of sort_compare_fields returned: "Panic"
\* when that panicked, its answer reversed under DESCENDING.
sort_on_closure(compared, main_flags) ==
    IF compared.ret.kind # "Ok" THEN "Panic"
    ELSE IF DESCENDING \in main_flags THEN reverse_ordering(compared.ret.val)
    ELSE compared.ret.val

\* The answers of that closure for the elements vs of the array.
sort_on_answers(vals, protos, vs, names, flags, case_sensitive) ==
    [i, j \in 1..Len(vs) |->
        sort_on_closure(sort_compare_fields(vals, protos, names, flags, 1,
                                            vs[i], vs[j], case_sensitive),
                        flags[1])]

(***************************************************************************)
(* join.  A string built by join is kept as the list of its pieces, the    *)
(* fields and the separators between them.                                 *)
(***************************************************************************)
\* Value::coerce_to_string as join meets it, in content of the given format
\* version: Undefined gives "undefined" from version 7 on and the empty
\* string before; the coercion of an object calls its toString, which throws
\* for the object 2 of the model.
try_coerce_to_string(v, swf_version) ==
    IF v = Undefined THEN Ok(IF swf_version >= 7 THEN "undefined" ELSE "")
    ELSE IF v = Ref(2) THEN Thrown("e")
    ELSE Ok(coerce_to_string(v))

\* args.get(0).and_then(|v| v.coerce_to_string(activation).ok())
\*     .unwrap_or_else(|| ",".into())
join_separator(args, swf_version) ==
    IF Len(args) = 0 THEN ","
    ELSE IF try_coerce_to_string(args[1], swf_version).kind = "Ok"
    THEN try_coerce_to_string(args[1], swf_version).val
    ELSE ","

\* v.coerce_to_string(activation).unwrap_or_else(|_| "undefined".into())
join_field(v, swf_version) ==
    IF try_coerce_to_string(v, swf_version).kind = "Ok"
    THEN try_coerce_to_string(v, swf_version).val
    ELSE "undefined"

\* [String]::join: the strs from the i-th on with the separator between
\* them.
RECURSIVE join_strings(_, _, _)
join_strings(strs, separator, i) ==
    IF i > Len(strs) THEN <<>>
    ELSE IF i = Len(strs) THEN <<strs[i]>>
    ELSE <<strs[i], separator>> \o join_strings(strs, separator, i + 1)

join(this, args, swf_version) ==
    join_strings([i \in 1..Len(array_values(this.map, this.array)) |->
                     join_field(array_values(this.map, this.array)[i],
                                swf_version)],
                 join_separator(args, swf_version), 1)

(***************************************************************************)
(* The stage and the borrow state of the objects' cells when nothing has   *)
(* been called yet.                                                        *)
(***************************************************************************)
\* StageScaleMode and its default.
ExactFit == "exactFit"

NoBorder == "noBorder"

NoScale == "noScale"

ShowAll == "showAll"

StageScaleModes == {ExactFit, NoBorder, NoScale, ShowAll}

\* Stage::empty(width, height).  scale: the factors a and d of the view
\* matrix, each a fraction <<numerator, denominator>>; resizes: how often the
\* resize event was fired.
EmptyStage(width, height) ==
    [movie_size |-> <<width, height>>, stage_size |-> <<width, height>>,
     scale_mode |-> ShowAll, align |-> {},
     viewport_size |-> <<width, height>>, viewport_scale_factor |-> 1,
     scale |-> <<<<1, 1>>, <<1, 1>>>>, resizes |-> 0]

\* A GcCell nobody borrows.
Unborrowed == [readers |-> 0, writer |-> FALSE]

\* No call is in progress, no cell is borrowed, the stage is as created.
Idle ==
    /\ stage = EmptyStage(1, 1)
    /\ borrows = [o \in 1..MaxObjs |-> Unborrowed]
    /\ stack = <<>>

(***************************************************************************)
(* The operations as actions.  last records what the operation was asked   *)
(* and what it answered.                                                   *)
(***************************************************************************)
Op(op, self, name, case_sensitive, value, this, base_proto, ret, calls, keys) ==
    [op |-> op, self |-> self, name |-> name, cs |-> case_sensitive,
     value |-> value, this |-> this, base_proto |-> base_proto, ret |-> ret,
     calls |-> calls, keys |-> keys]

\* ScriptObject::object / ScriptObject::bare_object
PropertiesStorage == [kind |-> "Properties", length |-> 0]

GetLocal(self, name, case_sensitive, this) ==
    \E r \in {get_local(values, self, name, case_sensitive, this)} :
        /\ last' = Op("get_local", self, name, case_sensitive, Undefined, this, 0,
                      r.res, r.calls, <<>>)
        /\ UNCHANGED heap

SetLocal(self, name, value, case_sensitive, this, base_proto) ==
    \E r \in {set_local(values, watchers, prototype, self, name, value,
                          case_sensitive, this, base_proto)} :
        /\ values' = [values EXCEPT ![self] = r.map]
        /\ last' = Op("set_local", self, name, case_sensitive, value, this,
                      base_proto, r.result, r.calls, <<>>)
        /\ UNCHANGED <<objs, prototype, watchers, array, outside>>

Delete(self, name, case_sensitive) ==
    \E r \in {delete(values[self], name, case_sensitive)} :
        /\ values' = [values EXCEPT ![self] = r.map]
        /\ last' = Op("delete", self, name, case_sensitive, Undefined, 0, 0,
                      Bool(r.ret), <<>>, <<>>)
        /\ UNCHANGED <<objs, prototype, watchers, array, outside>>

DefineValue(self, name, value, attributes) ==
    /\ values' = [values EXCEPT
                     ![self] = define_value(values[self], name, value, attributes)]
    /\ last' = Op("define_value", self, name, TRUE, Undefined, 0, 0, Unit, <<>>,
                  <<>>)
    /\ UNCHANGED <<objs, prototype, watchers, array, outside>>

AddProperty(self, name, getter, setter, attributes) ==
    /\ values' = [values EXCEPT
                     ![self] = add_property(values[self], name, getter, setter,
                                            attributes)]
    /\ last' = Op("add_property", self, name, FALSE, Undefined, 0, 0, Unit, <<>>,
                  <<>>)
    /\ UNCHANGED <<objs, prototype, watchers, array, outside>>

SetWatcher(self, name, callback, user_data, case_sensitive) ==
    /\ watchers' = [watchers EXCEPT
                       ![self] = set_watcher(watchers[self], name, callback,
                                             user_data, case_sensitive)]
    /\ last' = Op("set_watcher", self, name, case_sensitive, callback, 0, 0,
                  Unit, <<>>, <<>>)
    /\ UNCHANGED <<objs, prototype, values, array, outside>>

RemoveWatcher(self, name, case_sensitive) ==
    \E r \in {remove_watcher(watchers[self], name, case_sensitive)} :
        /\ watchers' = [watchers EXCEPT ![self] = r.map]
        /\ last' = Op("remove_watcher", self, name, case_sensitive, Undefined, 0,
                      0, Bool(r.ret), <<>>, <<>>)
        /\ UNCHANGED <<objs, prototype, values, array, outside>>

\* ScriptObject::create_bare_object on a Properties-storage object: a fresh
\* plain object whose prototype is this.
CreateBareObject(self, this) ==
    /\ objs < MaxObjs
    /\ array[self].kind = "Properties"
    /\ objs' = objs + 1
    /\ prototype' = Append(prototype, this)
    /\ values' = Append(values, <<>>)
    /\ watchers' = Append(watchers, <<>>)
    /\ array' = Append(array, PropertiesStorage)
    /\ UNCHANGED outside
    /\ last' = Op("create_bare_object", self, "", TRUE, Undefined, this, 0, Unit,
                  <<>>, <<>>)

GetKeys(self, case_sensitive) ==
    /\ last' = Op("get_keys", self, "", case_sensitive, Undefined, 0, 0, Unit,
                  <<>>, get_keys(values, prototype, self, case_sensitive))
    /\ UNCHANGED heap

HasProperty(self, name, case_sensitive) ==
    /\ last' = Op("has_property", self, name, case_sensitive, Undefined, 0, 0,
                  Bool(has_property(values, prototype, self, name,
                                    case_sensitive)),
                  <<>>, <<>>)
    /\ UNCHANGED heap

HasOwnProperty(self, name, case_sensitive) ==
    /\ last' = Op("has_own_property", self, name, case_sensitive, Undefined, 0, 0,
                  Bool(has_own_property(values, self, name, case_sensitive)),
                  <<>>, <<>>)
    /\ UNCHANGED heap

\* What an operation on the array storage was asked and what it answered;
\* was: length() when it was called.
ArrayOp(op, self, index, value, ret) ==
    [op |-> op, self |-> self, name |-> "", cs |-> FALSE, value |-> value,
     this |-> 0, base_proto |-> 0, ret |-> Ok(ret), calls |-> <<>>,
     keys |-> <<>>, index |-> index, was |-> length(array[self])]

SetArrayElement(self, index, value) ==
    \E r \in {set_array_element(values[self], array[self], index, value)} :
        /\ values' = [values EXCEPT ![self] = r.map]
        /\ array' = [array EXCEPT ![self] = r.array]
        /\ last' = ArrayOp("set_array_element", self, index, value,
                           Number(r.ret))
        /\ UNCHANGED <<objs, prototype, watchers, outside>>

DeleteArrayElement(self, index) ==
    /\ array' = [array EXCEPT ![self] = delete_array_element(@, index)]
    /\ last' = ArrayOp("delete_array_element", self, index, Undefined, Undefined)
    /\ UNCHANGED <<objs, prototype, values, watchers, outside>>

SetLength(self, new_length) ==
    \E r \in {set_length(values[self], array[self], new_length)} :
        /\ values' = [values EXCEPT ![self] = r.map]
        /\ array' = [array EXCEPT ![self] = r.array]
        /\ last' = ArrayOp("set_length", self, new_length, Undefined, Undefined)
        /\ UNCHANGED <<objs, prototype, watchers, outside>>

\* set_attributes with a name.
SetAttributes(self, name, set_mask, clear_mask) ==
    /\ values' = [values EXCEPT
                     ![self] = set_attributes(@, name, set_mask, clear_mask)]
    /\ last' = [Op("set_attributes", self, name, FALSE, Undefined, 0, 0, Unit,
                   <<>>, <<>>)
                EXCEPT !.keys = <<set_mask, clear_mask>>]
    /\ UNCHANGED <<objs, prototype, watchers, array, outside>>

\* set_attributes without a name.
SetAttributesAll(self, set_mask, clear_mask) ==
    /\ values' = [values EXCEPT
                     ![self] = set_attributes_all(@, set_mask, clear_mask)]
    /\ last' = [Op("set_attributes_all", self, "", FALSE, Undefined, 0, 0, Unit,
                   <<>>, <<>>)
                EXCEPT !.keys = <<set_mask, clear_mask>>]
    /\ UNCHANGED <<objs, prototype, watchers, array, outside>>

\* What a call of a built-in leaves in last: its arguments, the length and
\* the elements before it, what it returned and, for splice, the elements of
\* the array it returned.
BuiltinOp(op, self, args, ret, removed) ==
    [op |-> op, self |-> self, name |-> "", cs |-> FALSE, value |-> Undefined,
     this |-> 0, base_proto |-> 0, ret |-> ret, calls |-> <<>>, keys |-> <<>>,
     args |-> args, was |-> length(array[self]),
     old |-> array_values(values[self], array[self]), removed |-> removed]

\* A built-in that takes the values given and returns a value.
Builtin(op, self, args, r) ==
    /\ values' = [values EXCEPT ![self] = r.this.map]
    /\ array' = [array EXCEPT ![self] = r.this.array]
    /\ last' = BuiltinOp(op, self, args, Ok(r.ret), <<>>)
    /\ UNCHANGED <<objs, prototype, watchers, outside>>

Push(self, args) ==
    /\ length(array[self]) + Len(args) <= MaxLen
    /\ Builtin("push", self, args, push(This(values[self], array[self]), args))

Unshift(self, args) ==
    /\ length(array[self]) + Len(args) <= MaxLen
    /\ Builtin("unshift", self, args,
               unshift(This(values[self], array[self]), args))

Shift(self, case_sensitive) ==
    Builtin("shift", self, <<>>,
            shift(This(values[self], array[self]), case_sensitive))

Pop(self, case_sensitive) ==
    Builtin("pop", self, <<>>,
            pop(This(values[self], array[self]), case_sensitive))

\* splice on a target whose isize has the given width, built with or without
\* overflow checks: where the negation of the start overflows, a build with
\* the checks panics and one without goes on with the wrapped value.
Splice(self, args, case_sensitive, bits, overflow_checks) ==
    /\ length(array[self]) + Len(args.items) <= MaxLen
    /\ IF /\ ~args.empty
          /\ overflow_checks
          /\ make_index_absolute(args.start, length(array[self]), bits).overflow
       THEN /\ last' = BuiltinOp("splice", self, args, Panicked, <<>>)
            /\ UNCHANGED heap
       ELSE \E r \in {splice(This(values[self], array[self]), args,
                              case_sensitive, bits)} :
                /\ values' = [values EXCEPT ![self] = r.this.map]
                /\ array' = [array EXCEPT ![self] = r.this.array]
                /\ last' = BuiltinOp("splice", self, args, Ok(r.ret),
                                     array_values(r.removed.map,
                                                  r.removed.array))
                /\ UNCHANGED <<objs, prototype, watchers, outside>>

\* concat, with the elements of the array it returns.
Concat(self, args, case_sensitive, array_proto) ==
    \E r \in {concat(values, array, prototype, array_proto, self, args,
                     case_sensitive)} :
        /\ last' = BuiltinOp("concat", self, args, Ok("[object Array]"),
                             array_values(r.map, r.array))
        /\ UNCHANGED heap

\* sort(compare_fn, flags), compare_fn "none" when the first argument is no
\* object.
Sort(self, compare_fn, flags) ==
    \E sorted \in sort_unstable_by(array_values(values[self], array[self]),
                                   compare_fn, flags) :
        \E r \in {sort_with_function(This(values[self], array[self]), self,
                                     array_values(values[self], array[self]),
                                     sorted, flags)} :
            /\ values' = [values EXCEPT ![self] = r.this.map]
            /\ array' = [array EXCEPT ![self] = r.this.array]
            /\ last' = BuiltinOp("sort", self,
                                 [compare_fn |-> compare_fn, flags |-> flags],
                                 Ok(r.ret),
                                 array_values(r.result.map, r.result.array))
            /\ UNCHANGED <<objs, prototype, watchers, outside>>

\* sortOn(fields, flags).  Without fields the call returns the receiver;
\* if a comparison panics, so does the call; else it is sort_with_function
\* under the flags of the first field.
SortOn(self, field_names, flags_arg, case_sensitive) ==
    IF field_names = <<>>
    THEN /\ last' = BuiltinOp("sort_on", self,
                              [fields |-> field_names, flags |-> flags_arg],
                              Ok(Ref(self)), <<>>)
         /\ UNCHANGED heap
    ELSE \E closure \in {sort_on_answers(
                             values, prototype,
                             array_values(values[self], array[self]),
                             field_names, field_flags(field_names, flags_arg),
                             case_sensitive)} :
        IF \E i, j \in 1..length(array[self]) :
                i # j /\ closure[i, j] = "Panic"
        THEN /\ last' = BuiltinOp("sort_on", self,
                                  [fields |-> field_names, flags |-> flags_arg],
                                  Panicked, <<>>)
             /\ UNCHANGED heap
        ELSE \E sorted \in sort_unstable_by_closure(length(array[self]),
                                                    closure) :
            \E r \in {sort_with_function(
                          This(values[self], array[self]), self,
                          array_values(values[self], array[self]), sorted,
                          field_flags(field_names, flags_arg)[1])} :
                /\ values' = [values EXCEPT ![self] = r.this.map]
                /\ array' = [array EXCEPT ![self] = r.this.array]
                /\ last' = BuiltinOp("sort_on", self,
                                     [fields |-> field_names,
                                      flags |-> flags_arg],
                                     Ok(r.ret),
                                     array_values(r.result.map, r.result.array))
                /\ UNCHANGED <<objs, prototype, watchers, outside>>

\* The closure of sort_compare_fields on two elements, on its own.
CompareFields(a, b, field_names, flags, case_sensitive) ==
    \E r \in {sort_compare_fields(values, prototype, field_names, flags, 1, a,
                                  b, case_sensitive)} :
        /\ last' = [op |-> "sort_compare_fields", a |-> a, b |-> b,
                    fields |-> field_names, flags |-> flags, ret |-> r.ret,
                    reads |-> r.reads]
        /\ UNCHANGED heap

\* join(separator) in content of the given format version; last.ret holds
\* the pieces of the string returned.
Join(self, args, swf_version) ==
    /\ last' = [BuiltinOp("join", self, args,
                          Ok(join(This(values[self], array[self]), args,
                                  swf_version)),
                          <<>>)
                EXCEPT !.value = Number(swf_version)]
    /\ UNCHANGED heap

\* make_index_absolute on its own.
MakeIndexAbsolute(index, len, bits, overflow_checks) ==
    \E r \in {make_index_absolute(index, len, bits)} :
        /\ last' = [op |-> "make_index_absolute", index |-> index, len |-> len,
                    bits |-> bits, overflow_checks |-> overflow_checks,
                    overflow |-> r.overflow,
                    ret |-> IF r.overflow /\ overflow_checks THEN Panicked
                            ELSE Ok(r.val)]
        /\ UNCHANGED heap

(***************************************************************************)
(* Spec: the slots of one object.  Object 1 is a plain object, object 2 a  *)
(* child of it (create_bare_object) that serves as the receiver of reads   *)
(* that reach object 1 through the prototype chain.                        *)
(***************************************************************************)
SlotNames == {"a", "A"}

UserValues == {"x", "y"}

InitLast == Op("init", 0, "", TRUE, Undefined, 0, 0, Unit, <<>>, <<>>)

Init ==
    /\ objs = 2
    /\ prototype = <<0, 1>>
    /\ values = <<<<>>, <<>>>>
    /\ watchers = <<<<>>, <<>>>>
    /\ array = <<PropertiesStorage, PropertiesStorage>>
    /\ Idle
    /\ last = InitLast

Next ==
    \/ \E n \in SlotNames, v \in UserValues,
          at \in SUBSET {DONT_DELETE, READ_ONLY} :
            DefineValue(1, n, v, at)
    \/ \E n \in SlotNames, g \in Callables, at \in {{}, {DONT_DELETE}} :
            AddProperty(1, n, g, "none", at)
    \/ \E n \in SlotNames, v \in UserValues, cs \in BOOLEAN :
            SetLocal(1, n, v, cs, 1, 0)
    \/ \E n \in SlotNames, cs \in BOOLEAN, this \in {1, 2} :
            GetLocal(1, n, cs, this)
    \/ \E n \in SlotNames, cs \in BOOLEAN :
            Delete(1, n, cs)

Spec == Init /\ [][Next]_vars

(***************************************************************************)
(* SpecWatch: one name of object 1 with every combination of a Stored or   *)
(* Virtual slot (any getter, any or no setter) and a watcher (any          *)
(* callback), set and read under both policies, with either object as the  *)
(* receiver.                                                               *)
(***************************************************************************)
WatchedNames == {"a"}

NextWatch ==
    \/ \E n \in WatchedNames, at \in {{}, {READ_ONLY}} :
            DefineValue(1, n, "x", at)
    \/ \E n \in WatchedNames, g \in Callables, st \in Callables \cup {"none"} :
            AddProperty(1, n, g, st, {})
    \/ \E n \in WatchedNames, f \in Callables, cs \in BOOLEAN :
            SetWatcher(1, n, f, "u", cs)
    \/ \E n \in WatchedNames, cs \in BOOLEAN :
            RemoveWatcher(1, n, cs)
    \/ \E n \in WatchedNames, v \in UserValues, cs \in BOOLEAN,
          this \in {1, 2}, base_proto \in {0, 1} :
            SetLocal(1, n, v, cs, this, base_proto)
    \/ \E n \in WatchedNames, cs \in BOOLEAN :
            GetLocal(1, n, cs, 1)
    \/ \E n \in WatchedNames, cs \in BOOLEAN :
            Delete(1, n, cs)

SpecWatch == Init /\ [][NextWatch]_vars

(***************************************************************************)
(* SpecProto: prototype chains.  A root object made by the plain-object    *)
(* factory; every further object is made by create_bare_object with an     *)
(* existing object as its prototype.  Slots are Stored, enumerable or not, *)
(* and the chain is asked for its keys and for names under both policies.  *)
(***************************************************************************)
ProtoNames == {"a", "A", "__proto__"}

RECURSIVE SlotCount(_, _)
SlotCount(vals, n) == IF n = 0 THEN 0 ELSE Len(vals[n]) + SlotCount(vals, n - 1)

InitProto ==
    /\ objs = 1
    /\ prototype = <<0>>
    /\ values = <<<<>>>>
    /\ watchers = <<<<>>>>
    /\ array = <<PropertiesStorage>>
    /\ Idle
    /\ last = InitLast

NextProto ==
    \/ \E o \in 1..objs, this \in 1..objs :
            CreateBareObject(o, this)
    \/ \E o \in 1..objs, n \in SlotNames, at \in {{}, {DONT_ENUM}} :
            /\ contains_key(values[o], n, TRUE) \/ SlotCount(values, objs) < MaxSlots
            /\ DefineValue(o, n, "x", at)
    \/ /\ SlotCount(values, objs) < MaxSlots
       /\ DefineValue(1, "__proto__", "x", {DONT_ENUM})
    \/ \E o \in 1..objs, cs \in BOOLEAN :
            GetKeys(o, cs)
    \/ \E o \in 1..objs, n \in SlotNames, cs \in BOOLEAN :
            HasProperty(o, n, cs)
    \/ \E o \in 1..objs, n \in ProtoNames, cs \in BOOLEAN :
            HasOwnProperty(o, n, cs)

SpecProto == InitProto /\ [][NextProto]_vars

(***************************************************************************)
(* SpecArray: one object, made by the array factory (Vector storage, with  *)
(* "length" synchronised to 0) or by the plain-object factory (Properties  *)
(* storage), under the operations on the array storage and, on the names   *)
(* the storage mirrors, the operations on the value map.                   *)
(***************************************************************************)
ArrayValues == {"x", "y"}

InitArray ==
    /\ objs = 1
    /\ prototype = <<0>>
    /\ \/ /\ array = <<VectorStorage(<<>>)>>
          /\ values = <<sync_native_property(<<>>, "length", TRUE, Number(0),
                                             FALSE)>>
       \/ /\ array = <<PropertiesStorage>>
          /\ values = <<<<>>>>
    /\ watchers = <<<<>>>>
    /\ Idle
    /\ last = InitLast

NextArray ==
    \/ \E i \in 0..MaxIndex, v \in ArrayValues :
            SetArrayElement(1, i, v)
    \/ \E i \in 0..MaxIndex :
            DeleteArrayElement(1, i)
    \/ \E n \in 0..(MaxIndex + 1) :
            SetLength(1, n)
    \/ SetAttributes(1, "0", {DONT_DELETE, READ_ONLY}, {DONT_ENUM})
    \/ \E n \in {"a", "length"} :
            SetLocal(1, n, "x", TRUE, 1, 0)
    \/ Delete(1, "length", TRUE)

SpecArray == InitArray /\ [][NextArray]_vars

(***************************************************************************)
(* SpecBuiltins: one array under push, pop, shift, unshift, splice and     *)
(* set_length, with an element made undeletable and an accessor property   *)
(* defined under the name of an index.  The build is varied where it       *)
(* matters, at the least start.                                            *)
(***************************************************************************)
Items == {<<>>, <<"x">>, <<"y", "x">>}

Starts == {MinIndex, 0 - 1, 0, 1}

Counts == {0 - 1, 0, 1, 2}

\* The calls of splice: with start, count and items, with the start alone,
\* with nothing.
SpliceInputs ==
    {SpliceArgs(start, TRUE, count, items) :
        start \in Starts, count \in Counts, items \in Items}
    \cup {SpliceArgs(start, FALSE, 0, <<>>) : start \in Starts}
    \cup {NoArgs}

\* The builds a call is tried on: the width of isize and whether overflow is
\* checked.
Builds(args) ==
    IF args.start = MinIndex THEN PointerBits \X BOOLEAN
    ELSE {<<IndexBits, FALSE>>}

InitBuiltins ==
    /\ objs = 1
    /\ prototype = <<0>>
    /\ array = <<NewArray.array>>
    /\ values = <<NewArray.map>>
    /\ watchers = <<<<>>>>
    /\ Idle
    /\ last = InitLast

NextBuiltins ==
    \/ \E args \in Items : Push(1, args)
    \/ \E args \in Items : Unshift(1, args)
    \/ Shift(1, TRUE)
    \/ Pop(1, TRUE)
    \/ \E args \in SpliceInputs : \E build \in Builds(args) :
            Splice(1, args, TRUE, build[1], build[2])
    \/ \E n \in 0..MaxLen : SetLength(1, n)
    \/ SetAttributes(1, "1", {DONT_DELETE}, {})
    \/ AddProperty(1, "2", "fConst", "fConst", {DONT_DELETE})

SpecBuiltins == InitBuiltins /\ [][NextBuiltins]_vars

(***************************************************************************)
(* SpecIndex: make_index_absolute on every index, on the lengths up to     *)
(* MaxLen and the lengths around the largest index, on both targets and    *)
(* with and without overflow checks.                                       *)
(***************************************************************************)
Lengths == 0..MaxLen \cup {2 ^ (IndexBits - 1) - 1, 2 ^ (IndexBits - 1),
                            2 ^ (IndexBits - 1) + 1}

NextIndex ==
    \E index \in Index, len \in Lengths, bits \in PointerBits,
       overflow_checks \in BOOLEAN :
        MakeIndexAbsolute(index, len, bits, overflow_checks)

SpecIndex == InitBuiltins /\ [][NextIndex]_vars

(***************************************************************************)
(* SpecAttrs: Stored and Virtual slots of one object, two of them under    *)
(* names that differ in letter case only, under set_attributes with and    *)
(* without a name.                                                         *)
(***************************************************************************)
AttrNames == {"a", "A", "b"}

\* Pairs of set_mask and clear_mask; in the last two the masks overlap.
AttrMasks ==
    {<<{}, {}>>, <<{DONT_ENUM}, {}>>, <<{}, {DONT_ENUM, DONT_DELETE}>>,
     <<{READ_ONLY}, {DONT_DELETE}>>, <<{DONT_ENUM}, {DONT_ENUM}>>,
     <<{DONT_DELETE, READ_ONLY}, {DONT_ENUM, READ_ONLY}>>}

NextAttrs ==
    \/ \E n \in {"a", "A"}, at \in {{}, {DONT_DELETE}} :
            DefineValue(1, n, "x", at)
    \/ AddProperty(1, "b", "fConst", "none", {})
    \/ \E n \in AttrNames \cup {"c"}, m \in AttrMasks :
            SetAttributes(1, n, m[1], m[2])
    \/ \E m \in AttrMasks : SetAttributesAll(1, m[1], m[2])
    \/ \E n \in {"a", "b"} : Delete(1, n, TRUE)

SpecAttrs == Init /\ [][NextAttrs]_vars

(***************************************************************************)
(* SpecWatchProto: watchers on object 2, whose prototype, object 1, may    *)
(* hold an accessor property of the watched name.                          *)
(***************************************************************************)
WatcherNames == {"a", "A"}

NextWatchProto ==
    \/ \E g \in {"fConst", "fThrow"} : AddProperty(1, "a", g, "none", {})
    \/ Delete(1, "a", TRUE)
    \/ \E at \in {{}, {DONT_DELETE}} : DefineValue(2, "a", "x", at)
    \/ AddProperty(2, "a", "fConst", "none", {})
    \/ \E n \in WatcherNames, f \in {"fConst", "fThrow", "obj"},
          cs \in BOOLEAN :
            SetWatcher(2, n, f, "u", cs)
    \/ \E n \in WatcherNames, cs \in BOOLEAN : RemoveWatcher(2, n, cs)
    \/ \E cs \in BOOLEAN : Delete(2, "a", cs)
    \/ \E cs \in BOOLEAN : SetLocal(2, "a", "x", cs, 2, 0)
    \/ SetAttributes(2, "a", {READ_ONLY}, {})

SpecWatchProto == Init /\ [][NextWatchProto]_vars

(***************************************************************************)
(* SpecConcat: object 1 is Array.prototype, objects 2 and 3 are arrays,    *)
(* object 4 is a plain object or an object made with an array as its       *)
(* prototype.  The arrays are written by set_array_element and, as a       *)
(* script writes them, by set_local.                                       *)
(***************************************************************************)
ArrayProto == 1

ConcatValues == {"x", Ref(3), Ref(4)}

ConcatArgs ==
    {<<>>} \cup {<<v>> : v \in ConcatValues}
    \cup {<<"x", Ref(3)>>, <<Ref(3), Ref(2)>>, <<Ref(4), "y">>}

InitConcat ==
    /\ objs = 4
    /\ prototype \in {<<0, ArrayProto, ArrayProto, 0>>,
                      <<0, ArrayProto, ArrayProto, 3>>}
    /\ values = <<<<>>, NewArray.map, NewArray.map, <<>>>>
    /\ array = <<PropertiesStorage, NewArray.array, NewArray.array,
                 PropertiesStorage>>
    /\ watchers = <<<<>>, <<>>, <<>>, <<>>>>
    /\ Idle
    /\ last = InitLast

NextConcat ==
    \/ \E i \in 0..MaxIndex, v \in ConcatValues : SetArrayElement(2, i, v)
    \/ \E v \in {"y", Ref(4)} : SetArrayElement(3, 0, v)
    \/ SetLocal(2, "0", "y", TRUE, 2, 0)
    \/ \E args \in ConcatArgs : Concat(2, args, TRUE, ArrayProto)

SpecConcat == InitConcat /\ [][NextConcat]_vars

(***************************************************************************)
(* SpecSort: an array of up to MaxLen numbers and strings under one call    *)
(* of sort, with or without a compare function and with every set of       *)
(* flags.                                                                  *)
(***************************************************************************)
SortValues == {"#1", "#2", "#10", "10", "a", "B"}

\* The sequences over S of length n.
Tuples(S, n) == [1..n -> S]

\* An array holding the elements vs.
ArrayOf(vs) == set_elements(NewArray, 0, vs, 1)

InitSort ==
    /\ objs = 1
    /\ prototype = <<0>>
    /\ \E n \in 0..MaxLen : \E vs \in Tuples(SortValues, n) :
          /\ array = <<ArrayOf(vs).array>>
          /\ values = <<ArrayOf(vs).map>>
    /\ watchers = <<<<>>>>
    /\ Idle
    /\ last = InitLast

\* The calls of sort: no compare function or one of the three, with every
\* set of flags.
SortCalls == {"none", "cmpNumeric", "fConst", "fThrow"} \X SortFlags

\* Sort is applied to the array as built: an array it leaves behind is again
\* one of the initial arrays, so a second call meets nothing new.
NextSort ==
    \E call \in IF last = InitLast THEN SortCalls ELSE {} :
        Sort(1, call[1], call[2])

SpecSort == InitSort /\ [][NextSort]_vars

(***************************************************************************)
(* SpecJoin: an array of up to MaxLen numbers, strings, Undefined and an   *)
(* object whose toString throws, joined with and without a separator in    *)
(* content of format version 6 and 7.                                      *)
(***************************************************************************)
JoinValues == {"#1", "#2", "a", Undefined, Ref(2)}

SwfVersions == {6, 7}

InitJoin ==
    /\ objs = 2
    /\ prototype = <<0, 0>>
    /\ \E n \in 0..MaxLen : \E vs \in Tuples(JoinValues, n) :
          /\ array = <<ArrayOf(vs).array, PropertiesStorage>>
          /\ values = <<ArrayOf(vs).map, <<>>>>
    /\ watchers = <<<<>>, <<>>>>
    /\ Idle
    /\ last = InitLast

NextJoin ==
    \E args \in {<<>>, <<"x">>, <<Undefined>>, <<Ref(2)>>},
       swf_version \in SwfVersions :
        Join(1, args, swf_version)

SpecJoin == InitJoin /\ [][NextJoin]_vars

(***************************************************************************)
(* SpecSortOn: object 1 is an array of the objects 2, 3 and 4, which hold  *)
(* a number under "x" and a string under "y"; object 4 may lack "x" or     *)
(* hold it as an accessor property whose getter throws.  One call of       *)
(* sortOn, or one comparison of two elements.                              *)
(***************************************************************************)
XValues == {"#2", "#10"}

YValues == {"a", "B"}

\* An object with the fields x and y.
Fields(x, y) == define_value(define_value(<<>>, "x", x, {}), "y", y, {})

\* The objects that may be object 4.
LastObjects ==
    {Fields(x, y) : x \in XValues, y \in YValues}
    \cup {define_value(<<>>, "y", y, {}) : y \in YValues}
    \cup {add_property(define_value(<<>>, "y", y, {}), "x", "fThrow", "none",
                       {}) : y \in YValues}

InitSortOn ==
    /\ objs = 4
    /\ prototype = <<0, 0, 0, 0>>
    /\ \E n \in 2..3 :
        \E o2, o3 \in {Fields(x, y) : x \in XValues, y \in YValues},
           o4 \in LastObjects :
            /\ array = <<ArrayOf([k \in 1..n |-> Ref(k + 1)]).array,
                         PropertiesStorage, PropertiesStorage,
                         PropertiesStorage>>
            /\ values = <<ArrayOf([k \in 1..n |-> Ref(k + 1)]).map, o2, o3,
                          o4>>
    /\ watchers = <<<<>>, <<>>, <<>>, <<>>>>
    /\ Idle
    /\ last = InitLast

FieldLists == {<<>>, <<"x">>, <<"y">>, <<"x", "y">>, <<"y", "x">>}

FieldFlags ==
    {{}, {NUMERIC}, {CASE_INSENSITIVE}, {DESCENDING}, {UNIQUE_SORT},
     {RETURN_INDEXED_ARRAY}, {NUMERIC, DESCENDING},
     {UNIQUE_SORT, RETURN_INDEXED_ARRAY}}

\* The flags of a second field.
SecondFlags ==
    {{}, {NUMERIC}, {CASE_INSENSITIVE}, {DESCENDING}, {UNIQUE_SORT},
     {RETURN_INDEXED_ARRAY}}

\* The second argument of sortOn for the fields given: nothing, one set of
\* flags, an array with a set for each field, an array of another length.
FlagsArgs(field_names) ==
    {NoFlags} \cup {OneFlags(f) : f \in FieldFlags}
    \cup (IF Len(field_names) = 2
          THEN {FlagsArray(<<f, g>>) : f \in FieldFlags, g \in SecondFlags}
               \cup {FlagsArray(<<{NUMERIC, RETURN_INDEXED_ARRAY}>>)}
          ELSE {FlagsArray(<<f>>) : f \in FieldFlags}
               \cup {FlagsArray(<<{NUMERIC}, {RETURN_INDEXED_ARRAY}>>)})

\* The calls of sortOn and the comparisons, on the array as built.
SortOnCalls ==
    IF last = InitLast
    THEN {<<field_names, flags_arg>> \in
            FieldLists \X UNION {FlagsArgs(f) : f \in FieldLists} :
                flags_arg \in FlagsArgs(field_names)}
    ELSE {}

\* The flags that select the compare function of a field.
CompareFlags == {{}, {NUMERIC}, {CASE_INSENSITIVE}}

Comparisons ==
    IF last = InitLast
    THEN {Ref(2), Ref(3), Ref(4)} \X {Ref(2), Ref(3), Ref(4)}
         \X (FieldLists \ {<<>>}) \X CompareFlags \X CompareFlags
    ELSE {}

NextSortOn ==
    \/ \E call \in SortOnCalls : SortOn(1, call[1], call[2], TRUE)
    \/ \E c \in Comparisons :
            CompareFields(c[1], c[2], c[3], <<c[4], c[5]>>, TRUE)

SpecSortOn == InitSortOn /\ [][NextSortOn]_vars

(***************************************************************************)
(* Helpers of the properties.                                              *)
(***************************************************************************)
\* The slot a lookup of name finds on object self (only when there is one).
SlotOf(vals, self, name, case_sensitive) ==
    vals[self][MapIndex(vals[self], name, case_sensitive)].val

HasSlot(vals, self, name, case_sensitive) ==
    MapIndex(vals[self], name, case_sensitive) # 0

HasWatcher(wats, self, name, case_sensitive) ==
    MapIndex(wats[self], name, case_sensitive) # 0

\* map without its i-th entry.
WithoutEntry(map, i) ==
    [j \in 1..(Len(map) - 1) |-> IF j < i THEN map[j] ELSE map[j + 1]]

(***************************************************************************)
(* C1.  A set_local on a name that holds a Stored slot and has no watcher  *)
(* returns success, and a get_local of the same name under the same policy *)
(* then returns the value just set, unless the slot carried READ_ONLY when *)
(* the set was made: then it returns the value stored before.  A get_local *)
(* of a Stored slot returns its value and changes nothing.                 *)
(***************************************************************************)
C1_SetThenGet ==
    [][LET self == last'.self
           n == last'.name
           cs == last'.cs
       IN  /\ (/\ last'.op = "set_local"
               /\ HasSlot(values, self, n, cs)
               /\ SlotOf(values, self, n, cs).kind = "Stored"
               /\ ~HasWatcher(watchers, self, n, cs))
              => LET old == SlotOf(values, self, n, cs)
                     expected == IF READ_ONLY \in old.attributes
                                 THEN old.value ELSE last'.value
                 IN  /\ last'.ret = Unit
                     /\ get_local(values', self, n, cs, self).res = Ok(expected)
           /\ (/\ last'.op = "get_local"
               /\ HasSlot(values, self, n, cs)
               /\ SlotOf(values, self, n, cs).kind = "Stored")
              => /\ last'.ret = Ok(SlotOf(values, self, n, cs).value)
                 /\ values' = values
      ]_vars

\* A set on a READ_ONLY Stored slot has returned and the slot kept a value
\* other than the one that was set.
C1_Witness ==
    /\ last.op = "set_local"
    /\ last.ret = Unit
    /\ HasSlot(values, last.self, last.name, last.cs)
    /\ LET p == SlotOf(values, last.self, last.name, last.cs)
       IN  /\ p.kind = "Stored"
           /\ READ_ONLY \in p.attributes
           /\ p.value # last.value

(***************************************************************************)
(* C2.  delete(name) returns false and changes nothing when name has no    *)
(* slot or its slot carries DONT_DELETE; otherwise it returns true and     *)
(* removes exactly one slot, one that name denotes.                        *)
(***************************************************************************)
\* The number of slots of map that a lookup of name may denote.
Matching(map, name, case_sensitive) ==
    {j \in 1..Len(map) : KeyMatches(map[j].key, name, case_sensitive)}

DeleteRefusedOrRemovesOne ==
    LET self == last'.self
        n == last'.name
        cs == last'.cs
        map == values[self]
        i == MapIndex(map, n, cs)
    IN  IF i = 0 \/ DONT_DELETE \in map[i].val.attributes
        THEN last'.ret = Bool(FALSE) /\ values' = values
        ELSE /\ last'.ret = Bool(TRUE)
             /\ \E j \in Matching(map, n, cs) : values'[self] = WithoutEntry(map, j)
             /\ \A o \in 1..objs : o # self => values'[o] = values[o]

\* The claim as made: after a successful delete has_own_property(name) is
\* false.
C2_DeleteAsClaimed ==
    [][last'.op = "delete"
         => /\ DeleteRefusedOrRemovesOne
            /\ last'.ret = Bool(TRUE)
                 => ~has_own_property(values', last'.self, last'.name, last'.cs)
      ]_vars

\* As amended: after a successful delete has_own_property(name) is false
\* under the case-sensitive policy; under the case-insensitive policy it is
\* true exactly when the map held a second key differing from the removed one
\* only in letter case.
C2_Delete ==
    [][last'.op = "delete"
         => /\ DeleteRefusedOrRemovesOne
            /\ last'.ret = Bool(TRUE)
                 => (has_own_property(values', last'.self, last'.name, last'.cs)
                       <=> (/\ ~last'.cs
                            /\ Cardinality(Matching(values[last'.self],
                                                    last'.name, FALSE)) > 1))
      ]_vars

\* A case-insensitive delete returned true and a case variant of the name is
\* still an own property.
C2_Witness ==
    /\ last.op = "delete"
    /\ last.ret = Bool(TRUE)
    /\ ~last.cs
    /\ has_own_property(values, last.self, last.name, FALSE)

(***************************************************************************)
(* C6.  get_local answers None exactly when name has no slot in the        *)
(* object's own value map under the policy of the call.                    *)
(***************************************************************************)
C6_NoneIffAbsent ==
    last.op = "get_local"
      => (last.ret.kind = "None"
            <=> ~HasSlot(values, last.self, last.name, last.cs))

(***************************************************************************)
(* C7.  get_local on a Stored slot returns the value and calls nothing; on *)
(* a Virtual slot it calls the getter once (if it can be called at all),   *)
(* with this = the receiver and base_proto = the object, and returns the   *)
(* getter's value, its thrown value as a failure, or Undefined for any     *)
(* other failure of the getter.                                            *)
(***************************************************************************)
C7_GetLocalResult ==
    (last.op = "get_local" /\ HasSlot(values, last.self, last.name, last.cs))
      => LET p == SlotOf(values, last.self, last.name, last.cs)
         IN  IF p.kind = "Stored"
             THEN last.ret = Ok(p.value) /\ last.calls = <<>>
             ELSE /\ last.calls = IF as_executable(p.get)
                                 THEN <<Call("[Getter]", p.get, last.this,
                                             last.self, <<>>, values[last.self])>>
                                 ELSE <<>>
                  /\ LET r == exec(p.get, <<>>)
                     IN  last.ret = CASE r.kind = "Ok" -> Ok(r.val)
                                      [] r.kind = "Thrown" -> Thrown(r.val)
                                      [] OTHER -> Ok(Undefined)

(***************************************************************************)
(* C3.  The steps of one set_local(name, v) on an object with a watcher    *)
(* for name: the old value is read, then the watcher is called with        *)
(* [name, old, v, user_data] on the value map as it was before the call,   *)
(* then the value map is upserted, then the setter is called with the      *)
(* value the watcher returned, on the upserted map.                        *)
(***************************************************************************)
\* The watcher a lookup of name finds (only when there is one).
WatcherOf(wats, self, name, case_sensitive) ==
    wats[self][MapIndex(wats[self], name, case_sensitive)].val

IsVirtual(vals, self, name, case_sensitive) ==
    /\ HasSlot(vals, self, name, case_sensitive)
    /\ SlotOf(vals, self, name, case_sensitive).kind = "Virtual"

\* The value set_local goes on with after a watcher call with result r.
Replaced(r) == IF r.kind = "Ok" THEN r.val ELSE Undefined

\* The value the old-value read of set_local yields for name on object self.
OldValue(vals, self, name, case_sensitive) ==
    IF ~HasSlot(vals, self, name, case_sensitive) THEN Ok(Undefined)
    ELSE LET p == SlotOf(vals, self, name, case_sensitive)
         IN  IF p.kind = "Stored" THEN Ok(p.value)
             ELSE IF ~as_executable(p.get) THEN Ok(Undefined)
             ELSE IF exec(p.get, <<>>).kind = "Error" THEN Ok(Undefined)
             ELSE exec(p.get, <<>>)

\* The calls of a set_local that goes through all its steps, in order: the
\* getter of a Virtual slot, the watcher callback, the setter of a Virtual
\* slot that has one (each only if invocable), the watcher on the map as it
\* was and the setter on the map as it is after the upsert.
StepsInOrder ==
    LET self == last'.self
        n == last'.name
        cs == last'.cs
        w == WatcherOf(watchers, self, n, cs)
        virt == IsVirtual(values, self, n, cs)
        p == SlotOf(values, self, n, cs)
        args == <<n, OldValue(values, self, n, cs).val, last'.value, w.user_data>>
        g == IF virt /\ as_executable(p.get) THEN 1 ELSE 0
        wc == IF as_executable(w.callback) THEN 1 ELSE 0
        st == IF virt /\ p.set # "none" /\ as_executable(p.set) THEN 1 ELSE 0
        new == IF wc = 1 THEN Replaced(exec(w.callback, args)) ELSE Undefined
        calls == last'.calls
    IN  /\ Len(calls) = g + wc + st
        /\ g = 1 => calls[1] = Call("[Getter]", p.get, self, self, <<>>,
                                    values[self])
        /\ wc = 1 => calls[g + 1] = Call(n, w.callback, last'.this,
                                         last'.base_proto, args, values[self])
        /\ st = 1 => calls[g + wc + 1] =
                       Call("[Setter]", p.set, last'.this, last'.base_proto,
                            <<new>>, values'[self])

\* The claim as made: every set_local on a watched name goes through all the
\* steps.
C3_OrderAsClaimed ==
    [][(last'.op = "set_local"
          /\ HasWatcher(watchers, last'.self, last'.name, last'.cs))
        => StepsInOrder
      ]_vars

\* As amended: it does unless reading the old value throws; set_local then
\* returns that thrown value at once, having called the getter only, and
\* leaves the value map as it was.
C3_Order ==
    [][(last'.op = "set_local"
          /\ HasWatcher(watchers, last'.self, last'.name, last'.cs))
        => LET old == OldValue(values, last'.self, last'.name, last'.cs)
           IN  IF old.kind = "Thrown"
               THEN /\ Len(last'.calls) = 1
                    /\ last'.calls[1].label = "[Getter]"
                    /\ last'.ret = old
                    /\ values' = values
               ELSE StepsInOrder
      ]_vars

\* A set_local has called getter, watcher and setter, and the setter received
\* the watcher's value, not the caller's.
C3_Witness ==
    /\ last.op = "set_local"
    /\ Len(last.calls) = 3
    /\ last.calls[1].label = "[Getter]"
    /\ last.calls[2].label = last.name
    /\ last.calls[3].label = "[Setter]"
    /\ last.calls[3].args = <<"c">>
    /\ last.value # "c"

(***************************************************************************)
(* What one set_local call is expected to do, read off the state before    *)
(* the call (the unprimed variables) and the arguments in last'.           *)
(***************************************************************************)
\* A watcher is registered and the old-value read did not throw: the watcher
\* step runs.
WatcherRuns ==
    /\ HasWatcher(watchers, last'.self, last'.name, last'.cs)
    /\ OldValue(values, last'.self, last'.name, last'.cs).kind # "Thrown"

\* The result of the watcher call (Watcher::call), when the watcher step runs.
WatcherResult ==
    LET w == WatcherOf(watchers, last'.self, last'.name, last'.cs)
        args == <<last'.name,
                  OldValue(values, last'.self, last'.name, last'.cs).val,
                  last'.value, w.user_data>>
    IN  IF as_executable(w.callback) THEN exec(w.callback, args)
        ELSE Ok(Undefined)

\* The value the upsert and the setter receive.
UpsertValue == IF WatcherRuns THEN Replaced(WatcherResult) ELSE last'.value

\* The setter is called: the slot is Virtual with an invocable setter.
SetterRuns ==
    /\ IsVirtual(values, last'.self, last'.name, last'.cs)
    /\ LET p == SlotOf(values, last'.self, last'.name, last'.cs)
       IN  p.set # "none" /\ as_executable(p.set)

SetterResult ==
    exec(SlotOf(values, last'.self, last'.name, last'.cs).set, <<UpsertValue>>)

\* map after the upsert of (name, v): a new Stored slot without attributes,
\* the value of a writable Stored slot replaced, anything else as it was.
Upserted(map, name, case_sensitive, v) ==
    LET i == MapIndex(map, name, case_sensitive)
    IN  IF i = 0 THEN Append(map, [key |-> name, val |-> Stored(v, {})])
        ELSE IF map[i].val.kind = "Stored" /\ READ_ONLY \notin map[i].val.attributes
        THEN [map EXCEPT ![i].val.value = v]
        ELSE map

(***************************************************************************)
(* C4.  The result of set_local: the thrown value of the setter if the     *)
(* setter throws, also when the watcher threw; else the thrown value of    *)
(* the watcher if it threw, after the upsert and the setter call have been *)
(* made; a failure of watcher or setter that is not a thrown value never   *)
(* makes set_local fail.                                                   *)
(***************************************************************************)
C4_SetterFailureWins ==
    [][(last'.op = "set_local"
          /\ (HasWatcher(watchers, last'.self, last'.name, last'.cs)
                 => WatcherRuns))
        => LET setterThrew == SetterRuns /\ SetterResult.kind = "Thrown"
               watcherThrew == WatcherRuns /\ WatcherResult.kind = "Thrown"
           IN  /\ setterThrew => last'.ret = SetterResult
               /\ (watcherThrew /\ ~setterThrew)
                    => /\ last'.ret = WatcherResult
                       /\ values'[last'.self] =
                            Upserted(values[last'.self], last'.name, last'.cs,
                                     Undefined)
                       /\ SetterRuns
                            => last'.calls[Len(last'.calls)].label = "[Setter]"
               /\ (~watcherThrew /\ ~setterThrew) => last'.ret = Unit
      ]_vars

\* Watcher and setter both threw and set_local returned the setter's value.
C4_Witness ==
    /\ last.op = "set_local"
    /\ Len(last.calls) >= 2
    /\ LET wc == last.calls[Len(last.calls) - 1]
           sc == last.calls[Len(last.calls)]
       IN  /\ wc.label = last.name /\ exec(wc.fn, wc.args).kind = "Thrown"
           /\ sc.label = "[Setter]" /\ exec(sc.fn, sc.args).kind = "Thrown"
           /\ last.ret = exec(sc.fn, sc.args)
           /\ last.ret # exec(wc.fn, wc.args)

(***************************************************************************)
(* C5.  When the watcher call fails, with a thrown value or otherwise, the *)
(* upsert and the setter get Undefined instead of the caller's value, and  *)
(* the upsert stands whatever set_local returns.                           *)
(***************************************************************************)
C5_FailedWatcherStoresUndefined ==
    [][(last'.op = "set_local" /\ WatcherRuns /\ WatcherResult.kind # "Ok")
        => LET self == last'.self
               before == values[self]
               i == MapIndex(before, last'.name, last'.cs)
           IN  /\ values'[self] = Upserted(before, last'.name, last'.cs, Undefined)
               /\ (i # 0 /\ before[i].val.kind = "Stored"
                          /\ READ_ONLY \notin before[i].val.attributes)
                    => values'[self][i].val.value = Undefined
               /\ i = 0 => get_local(values', self, last'.name, last'.cs, self).res
                             = Ok(Undefined)
               /\ SetterRuns
                    => last'.calls[Len(last'.calls)].args = <<Undefined>>
               /\ (WatcherResult.kind = "Thrown"
                      /\ ~(SetterRuns /\ SetterResult.kind = "Thrown"))
                    => last'.ret = WatcherResult
      ]_vars

\* set_local returned the watcher's thrown value and the Stored slot holds
\* Undefined, not the value the caller gave.
C5_Witness ==
    /\ last.op = "set_local"
    /\ last.ret = Thrown("e4")
    /\ last.value # Undefined
    /\ HasSlot(values, last.self, last.name, last.cs)
    /\ SlotOf(values, last.self, last.name, last.cs) = Stored(Undefined, {})

(***************************************************************************)
(* C8.  set_local on a name that holds a Virtual slot stores nothing and   *)
(* leaves the slot as it is; when the slot has no setter nothing is called, *)
(* set_local returns success and a get answers as before.                  *)
(***************************************************************************)
NothingCalled ==
    /\ last'.calls = <<>>
    /\ last'.ret = Unit
    /\ get_local(values', last'.self, last'.name, last'.cs, last'.this)
         = get_local(values, last'.self, last'.name, last'.cs, last'.this)

\* The claim as made.
C8_VirtualSetAsClaimed ==
    [][(last'.op = "set_local"
          /\ IsVirtual(values, last'.self, last'.name, last'.cs))
        => /\ values' = values
           /\ SlotOf(values, last'.self, last'.name, last'.cs).set = "none"
                => NothingCalled
      ]_vars

\* As amended: nothing is called when the slot has no setter and the name has
\* no watcher; with a watcher, no setter call is made.
C8_VirtualSet ==
    [][(last'.op = "set_local"
          /\ IsVirtual(values, last'.self, last'.name, last'.cs))
        => /\ values' = values
           /\ SlotOf(values, last'.self, last'.name, last'.cs).set = "none"
                => /\ ~HasWatcher(watchers, last'.self, last'.name, last'.cs)
                        => NothingCalled
                   /\ \A k \in 1..Len(last'.calls) :
                        last'.calls[k].label # "[Setter]"
      ]_vars

\* A set_local on a getter-only Virtual slot without a watcher has returned:
\* the slot is still there and a get calls the getter.
C8_Witness ==
    /\ last.op = "set_local"
    /\ last.calls = <<>>
    /\ IsVirtual(values, last.self, last.name, last.cs)
    /\ SlotOf(values, last.self, last.name, last.cs).set = "none"
    /\ ~HasWatcher(watchers, last.self, last.name, last.cs)
    /\ get_local(values, last.self, last.name, last.cs, last.this).res = Ok("c")

(***************************************************************************)
(* The prototype chain of an object, written out.                          *)
(***************************************************************************)
\* The objects from the end of the chain down to o.
RECURSIVE Chain(_, _)
Chain(protos, o) ==
    IF protos[o] = 0 THEN <<o>> ELSE Append(Chain(protos, protos[o]), o)

\* The keys of the i-th object of chain that an enumeration of the last
\* object shows: enumerable, and defined by no object further down.
VisibleKeys(vals, chain, i, case_sensitive) ==
    LET Shown(e) ==
            /\ is_enumerable(e.val)
            /\ \A j \in (i + 1)..Len(chain) :
                  ~contains_key(vals[chain[j]], e.key, case_sensitive)
    IN  MapKeys(SelectSeq(vals[chain[i]], Shown))

RECURSIVE Flatten(_, _, _, _)
Flatten(vals, chain, i, case_sensitive) ==
    IF i = 0 THEN <<>>
    ELSE Flatten(vals, chain, i - 1, case_sensitive)
           \o VisibleKeys(vals, chain, i, case_sensitive)

(***************************************************************************)
(* C9.  get_keys returns the keys of the prototype's get_keys that are not *)
(* defined locally, enumerable or not, and then the enumerable local keys  *)
(* in insertion order.  So along the whole chain a key shows where the     *)
(* outermost object that defines it has it enumerable and no object below  *)
(* defines it; a key that is local and not enumerable is not in the        *)
(* result, and no key is there twice.                                      *)
(***************************************************************************)
C9_GetKeys ==
    last.op = "get_keys"
    => LET self == last.self
           keys == last.keys
           inherited == IF prototype[self] = 0 THEN <<>>
                        ELSE get_keys(values, prototype, prototype[self], last.cs)
           NotLocal(k) == ~contains_key(values[self], k, last.cs)
           Enumerable(e) == DONT_ENUM \notin e.val.attributes
           chain == Chain(prototype, self)
       IN  /\ keys = SelectSeq(inherited, NotLocal)
                       \o MapKeys(SelectSeq(values[self], Enumerable))
           /\ keys = Flatten(values, chain, Len(chain), last.cs)
           /\ \A i \in 1..Len(values[self]) :
                 ~Enumerable(values[self][i])
                 => \A k \in 1..Len(keys) : keys[k] # values[self][i].key
           /\ \A i, j \in 1..Len(keys) : i # j => keys[i] # keys[j]

\* The keys of an object were asked for whose prototype has an enumerable
\* slot that the object hides with a slot that is not enumerable.
C9_Witness ==
    /\ last.op = "get_keys"
    /\ prototype[last.self] # 0
    /\ \E i \in 1..Len(values[prototype[last.self]]) :
         LET e == values[prototype[last.self]][i]
         IN  /\ is_enumerable(e.val)
             /\ HasSlot(values, last.self, e.key, last.cs)
             /\ ~is_enumerable(SlotOf(values, last.self, e.key, last.cs))
             /\ \A k \in 1..Len(last.keys) : last.keys[k] # e.key

(***************************************************************************)
(* C10.  has_property(name) is true exactly when has_own_property(name) is *)
(* true of the object or of an object on its prototype chain, and          *)
(* has_own_property("__proto__") is true of every object, with or without  *)
(* a slot of that name.                                                    *)
(***************************************************************************)
C10_HasProperty ==
    /\ last.op = "has_property"
         => LET chain == Chain(prototype, last.self)
            IN  last.ret = Bool(\E i \in 1..Len(chain) :
                                  has_own_property(values, chain[i], last.name,
                                                   last.cs))
    /\ (last.op = "has_own_property" /\ last.name = "__proto__")
         => last.ret = Bool(TRUE)
    /\ \A o \in 1..objs, cs \in BOOLEAN :
         has_own_property(values, o, "__proto__", cs)

\* has_property answered true for a name that neither the object nor its
\* prototype has, only the prototype's prototype.
C10_Witness ==
    /\ last.op = "has_property"
    /\ last.ret = Bool(TRUE)
    /\ prototype[last.self] # 0
    /\ prototype[prototype[last.self]] # 0
    /\ ~contains_key(values[last.self], last.name, last.cs)
    /\ ~contains_key(values[prototype[last.self]], last.name, last.cs)
    /\ contains_key(values[prototype[prototype[last.self]]], last.name, last.cs)

(***************************************************************************)
(* Helpers of the array properties.                                        *)
(***************************************************************************)
IsVector(self) == array[self].kind = "Vector"

\* map has a Stored slot under exactly this name.
HasStored(map, name) ==
    /\ contains_key(map, name, TRUE)
    /\ map[MapIndex(map, name, TRUE)].val.kind = "Stored"

StoredSlot(map, name) == map[MapIndex(map, name, TRUE)].val

(***************************************************************************)
(* C11.  On an object with Vector storage the own property "length" is,    *)
(* in every reachable state, a Stored slot that is not enumerable and      *)
(* holds length(), the size of the vector.                                 *)
(***************************************************************************)
C11_LengthMirrored ==
    \A o \in 1..objs :
        IsVector(o)
        => /\ HasStored(values[o], "length")
           /\ ~is_enumerable(StoredSlot(values[o], "length"))
           /\ StoredSlot(values[o], "length").value = Number(length(array[o]))

(***************************************************************************)
(* C12.  On an object with Vector storage the value map mirrors the        *)
(* vector: the index just written by set_array_element has an enumerable   *)
(* Stored slot holding the value, and a Stored slot named i, i < length(), *)
(* holds array_element(i), also after delete_array_element(i).             *)
(***************************************************************************)
C12_ElementsMirrored ==
    \A o \in 1..objs :
        IsVector(o)
        => /\ (last.op = "set_array_element" /\ last.self = o)
                => /\ HasStored(values[o], to_string(last.index))
                   /\ StoredSlot(values[o], to_string(last.index))
                        = Stored(last.value,
                                 StoredSlot(values[o],
                                            to_string(last.index)).attributes)
                   /\ last.was <= last.index
                        => is_enumerable(StoredSlot(values[o],
                                                    to_string(last.index)))
           /\ \A i \in 0..(length(array[o]) - 1) :
                 HasStored(values[o], to_string(i))
                 => StoredSlot(values[o], to_string(i)).value
                      = array_element(values[o], array[o], i)

(***************************************************************************)
(* C14.  set_array_element(i, v) on Vector storage of length L.  If        *)
(* i >= L it returns i + 1, the length becomes i + 1, element i is v, the  *)
(* elements L..i-1 are Undefined and those below L are as before.  If      *)
(* i < L only element i changes and the length stays L.                    *)
(***************************************************************************)
C14_SetArrayElement ==
    [][(last'.op = "set_array_element" /\ IsVector(last'.self))
        => LET o == last'.self
               i == last'.index
               L == Len(array[o].vector)
               Before(j) == array_element(values[o], array[o], j)
               After(j) == array_element(values'[o], array'[o], j)
           IN  /\ After(i) = last'.value
               /\ \A j \in 0..(L - 1) : j # i => After(j) = Before(j)
               /\ IF i >= L
                  THEN /\ last'.ret = Ok(Number(i + 1))
                       /\ length(array'[o]) = i + 1
                       /\ \A j \in L..(i - 1) : After(j) = Undefined
                  ELSE length(array'[o]) = L
      ]_vars

\* An element was written past the end of the vector, leaving a gap: the
\* place at the old end reads Undefined.
C14_Witness ==
    /\ last.op = "set_array_element"
    /\ IsVector(last.self)
    /\ last.index > last.was
    /\ last.ret = Ok(Number(last.index + 1))
    /\ array_element(values[last.self], array[last.self], last.was) = Undefined
    /\ array_element(values[last.self], array[last.self], last.index) = last.value

C16_OnlyCounterMoves ==
    [][(last'.op = "set_length" /\ ~IsVector(last'.self))
        => /\ length(array'[last'.self]) = last'.index
           /\ values' = values
      ]_vars

(***************************************************************************)
(* What the claims about splice call the normalized start s and the number *)
(* r of removed elements.                                                  *)
(***************************************************************************)
Max(a, b) == IF a >= b THEN a ELSE b

NormalizedStart(i, L) == IF i < 0 THEN Max(L + i, 0) ELSE min(i, L)

\* clamp(count, 0, L - s), the count being L when it is left out.
RemovedCount(args, L) ==
    Max(0, min(IF args.has_count THEN args.count ELSE L,
               L - NormalizedStart(args.start, L)))

IsBuiltin(op) == op \in {"push", "unshift", "pop", "shift", "splice"}

(***************************************************************************)
(* C13.  On an array, after each of push, pop, shift, unshift, splice and  *)
(* set_length, length() is the number of elements array() returns, and the *)
(* call has changed length() by: push and unshift, plus the number of      *)
(* arguments; pop and shift, minus one, or nothing on the empty array;     *)
(* splice, plus the items given minus the elements to remove; set_length   *)
(* (n), to n.                                                              *)
(***************************************************************************)
C13_LengthDeltas ==
    [][(IsBuiltin(last'.op) \/ last'.op = "set_length")
        => LET o == last'.self
               L == length(array[o])
               After == length(array'[o])
           IN  /\ After = Len(array_values(values'[o], array'[o]))
               /\ last'.op \in {"push", "unshift"}
                    => After = L + Len(last'.args)
               /\ last'.op \in {"pop", "shift"}
                    => After = IF L = 0 THEN 0 ELSE L - 1
               /\ (last'.op = "splice" /\ last'.args.empty) => After = L
               /\ (last'.op = "splice" /\ ~last'.args.empty)
                    => After = L + Len(last'.args.items)
                                 - RemovedCount(last'.args, L)
               /\ last'.op = "set_length" => After = last'.index
      ]_vars

(***************************************************************************)
(* C17.  set_attributes(name, set_mask, clear_mask) gives the slot named   *)
(* name the attributes (old - clear_mask) | set_mask and leaves the        *)
(* attributes of every other slot alone; when no slot is named name it     *)
(* changes nothing.  Without a name it gives every slot the attributes of  *)
(* that formula.  In both cases keys, their order, the variants and what   *)
(* the slots hold stay as they were.                                       *)
(***************************************************************************)
SameButAttributes(p, q) == [p EXCEPT !.attributes = q.attributes] = q

C17_SetAttributes ==
    [][(last'.op \in {"set_attributes", "set_attributes_all"})
        => LET o == last'.self
               Formula(at) == (at \ last'.keys[2]) \cup last'.keys[1]
               Named(k) == \/ last'.op = "set_attributes_all"
                           \/ values[o][k].key = last'.name
           IN  /\ Len(values'[o]) = Len(values[o])
               /\ \A k \in 1..Len(values[o]) :
                     /\ values'[o][k].key = values[o][k].key
                     /\ SameButAttributes(values[o][k].val, values'[o][k].val)
                     /\ values'[o][k].val.attributes
                          = IF Named(k) THEN Formula(values[o][k].val.attributes)
                            ELSE values[o][k].val.attributes
               /\ watchers' = watchers
      ]_vars

(***************************************************************************)
(* The watcher step of a set_local, seen from outside.                     *)
(***************************************************************************)
\* The read of the old value, through the prototype chain.
OldRead == get(values, prototype, last'.self, last'.name, last'.cs).res

\* The set_local that is last' ran the watcher registered for its name: the
\* callback, if it is invocable, was called with the name, the old value, the
\* new value and the user data, and the value went on as the callback's
\* result, or Undefined if it has none.
WatcherFired ==
    LET w == WatcherOf(watchers, last'.self, last'.name, last'.cs)
        args == <<last'.name, OldRead.val, last'.value, w.user_data>>
        map == values'[last'.self]
        i == MapIndex(map, last'.name, last'.cs)
    IN  /\ as_executable(w.callback)
             => \E k \in 1..Len(last'.calls) :
                   /\ last'.calls[k].fn = w.callback
                   /\ last'.calls[k].args = args
        /\ i # 0
        /\ map[i].val.kind = "Stored"
        /\ map[i].val.value
             = IF as_executable(w.callback)
               THEN Replaced(exec(w.callback, args))
               ELSE Undefined

\* The set_local that is last' sets a name that has a watcher and no slot on
\* the object, as after the deletion of the property.
SetOfDeletedWatched ==
    /\ last'.op = "set_local"
    /\ HasWatcher(watchers, last'.self, last'.name, last'.cs)
    /\ ~HasSlot(values, last'.self, last'.name, last'.cs)

\* set_watcher and remove_watcher leave the value map alone; delete,
\* set_local, add_property, define_value and set_attributes leave the watcher
\* map alone; set_watcher replaces the watcher of the name or adds one, no
\* key of the watcher map occurs twice, and remove_watcher returns whether a
\* watcher was registered for the name.
WatchersApart ==
    LET o == last'.self
        n == last'.name
        cs == last'.cs
    IN  /\ last'.op \in {"set_watcher", "remove_watcher"} => values' = values
        /\ last'.op \in {"delete", "set_local", "add_property", "define_value",
                          "set_attributes"}
             => watchers' = watchers
        /\ last'.op = "set_watcher"
             => /\ WatcherOf(watchers', o, n, cs) = Watcher(last'.value, "u")
                /\ Len(watchers'[o])
                     = IF HasWatcher(watchers, o, n, cs) THEN Len(watchers[o])
                       ELSE Len(watchers[o]) + 1
                /\ \A i, j \in 1..Len(watchers'[o]) :
                      watchers'[o][i].key = watchers'[o][j].key => i = j
        /\ last'.op = "remove_watcher"
             => /\ last'.ret = Bool(HasWatcher(watchers, o, n, cs))
                /\ Len(watchers'[o])
                     = IF HasWatcher(watchers, o, n, cs) THEN Len(watchers[o]) - 1
                       ELSE Len(watchers[o])
        /\ (last'.op = "delete" /\ last'.ret = Bool(TRUE)
               /\ HasWatcher(watchers, o, n, cs))
             => HasWatcher(watchers', o, n, cs)

(***************************************************************************)
(* C18 as stated.  The watcher map and the value map are independent, and  *)
(* a watcher set for a name fires on every set_local of the name after the *)
(* property was deleted.                                                   *)
(***************************************************************************)
C18_AsClaimed ==
    [][/\ WatchersApart
       /\ SetOfDeletedWatched => WatcherFired]_vars

(***************************************************************************)
(* C18.  The watcher map and the value map are independent, and a watcher  *)
(* set for a name fires on a set_local of the name after the property was  *)
(* deleted unless the read of the old value throws: then set_local returns *)
(* the thrown value, nothing but the getter was called and the value map   *)
(* is as it was.                                                           *)
(***************************************************************************)
C18_WatchersApart ==
    [][/\ WatchersApart
       /\ SetOfDeletedWatched
            => IF OldRead.kind = "Thrown"
               THEN /\ last'.ret = OldRead
                    /\ values' = values
                    /\ \A k \in 1..Len(last'.calls) :
                          last'.calls[k].label = "[Getter]"
               ELSE WatcherFired]_vars

\* A set_local of a name that had a watcher and no slot called the watcher
\* and stored its result: the watcher is still there.
C18_Witness ==
    /\ last.op = "set_local"
    /\ HasWatcher(watchers, last.self, last.name, last.cs)
    /\ \E k \in 1..Len(last.calls) :
          /\ last.calls[k].fn = "fConst"
          /\ last.calls[k].args = <<last.name, Undefined, last.value, "u">>
          /\ last.calls[k].sees = <<>>
    /\ HasStored(values[last.self], last.name)
    /\ StoredSlot(values[last.self], last.name).value = "c"

(***************************************************************************)
(* C19.  For every index i of the index type, the least one included, and  *)
(* every length L, make_index_absolute returns max(L - |i|, 0) when i < 0  *)
(* and min(i, L) when i >= 0, a value in 0..L, and no step of the          *)
(* computation overflows.                                                  *)
(***************************************************************************)
C19_MakeIndexAbsolute ==
    last.op = "make_index_absolute"
    => /\ last.ret = Ok(NormalizedStart(last.index, last.len))
       /\ last.ret.val \in 0..last.len
       /\ ~last.overflow

(***************************************************************************)
(* C20.  splice(start, count, items...) with count >= 0 on an array with   *)
(* the elements old, L of them, s the normalized start and                 *)
(* r = min(count, L - s): afterwards the array holds old[0..s), the items  *)
(* and old[s+r..L), its length is L + |items| - r, no property named i     *)
(* is left for an i at or beyond that length (and below L), and the call   *)
(* returns a new array that holds old[s..s+r).                             *)
(***************************************************************************)
C20_Splice ==
    [][(/\ last'.op = "splice"
        /\ ~last'.args.empty
        /\ last'.args.has_count
        /\ last'.args.count >= 0)
        => LET o == last'.self
               old == last'.old
               L == Len(old)
               s == NormalizedStart(last'.args.start, L)
               r == min(last'.args.count, L - s)
               items == last'.args.items
           IN  /\ array_values(values'[o], array'[o])
                    = SubSeq(old, 1, s) \o items \o SubSeq(old, s + r + 1, L)
               /\ length(array'[o]) = L + Len(items) - r
               /\ \A i \in (L + Len(items) - r)..(L - 1) :
                     ~contains_key(values'[o], to_string(i), TRUE)
               /\ last'.ret = Ok("[object Array]")
               /\ last'.removed = SubSeq(old, s + 1, s + r)
      ]_vars

(***************************************************************************)
(* C21.  splice with a negative count removes nothing: the items are       *)
(* inserted at the normalized start, the tail moving up, and the call      *)
(* returns an empty array.                                                 *)
(***************************************************************************)
C21_NegativeCount ==
    [][(/\ last'.op = "splice"
        /\ ~last'.args.empty
        /\ last'.args.has_count
        /\ last'.args.count < 0)
        => LET o == last'.self
               old == last'.old
               L == Len(old)
               s == NormalizedStart(last'.args.start, L)
           IN  /\ array_values(values'[o], array'[o])
                    = SubSeq(old, 1, s) \o last'.args.items
                        \o SubSeq(old, s + 1, L)
               /\ last'.ret = Ok("[object Array]")
               /\ last'.removed = <<>>
      ]_vars

(***************************************************************************)
(* C22.  concat returns a new array that holds, in order, the elements     *)
(* array_element(0..length()-1) of the receiver and then, for each         *)
(* argument, its elements if it is an object with the Array prototype on   *)
(* its prototype chain (one level: an array among them stays one element)  *)
(* and else the argument itself; receiver and arguments stay as they were. *)
(***************************************************************************)
Elements(o) == [i \in 1..length(array[o]) |-> array_element(values[o], array[o], i - 1)]

IsArrayNatured(v) ==
    IsObject(v) /\ is_prototype_of(prototype, ArrayProto, prototype[Deref(v)])

RECURSIVE Concatenated(_, _)
Concatenated(args, i) ==
    IF i > Len(args) THEN <<>>
    ELSE (IF IsArrayNatured(args[i]) THEN Elements(Deref(args[i]))
          ELSE <<args[i]>>) \o Concatenated(args, i + 1)

C22_Concat ==
    [][last'.op = "concat"
        => /\ last'.ret = Ok("[object Array]")
           /\ last'.removed = Elements(last'.self) \o Concatenated(last'.args, 1)
           /\ heap' = heap
      ]_vars

(***************************************************************************)
(* The call of sort just made: its comparator with the DESCENDING reversal *)
(* applied, the elements it found and the elements it left.                *)
(***************************************************************************)
IsSort == last'.op = "sort"

Compared(x, y) ==
    sort_closure(last'.args.compare_fn, last'.args.flags, x, y)

Before == last'.old

After == array_values(values'[last'.self], array'[last'.self])

Result == last'.removed

HasTie ==
    \E i, j \in 1..Len(Before) :
        i # j /\ Compared(Before[i], Before[j]) = "Equal"

\* The comparator orders the elements: asked the other way round it answers
\* the reverse, and not-after is transitive.
Consistent ==
    \A i, j, k \in 1..Len(Before) :
        /\ Compared(Before[i], Before[j])
             = reverse_ordering(Compared(Before[j], Before[i]))
        /\ (/\ Compared(Before[i], Before[j]) \in {"Less", "Equal"}
            /\ Compared(Before[j], Before[k]) \in {"Less", "Equal"})
           => Compared(Before[i], Before[k]) \in {"Less", "Equal"}

Aborted == last'.ret = Ok(Number(0))

\* The call did what a call without the flag may do.
SortedAsWithout(flag) ==
    \E sorted \in sort_unstable_by(Before, last'.args.compare_fn,
                                   last'.args.flags \ {flag}) :
        \E r \in {sort_with_function(This(values[last'.self],
                                          array[last'.self]),
                                     last'.self, Before, sorted,
                                     last'.args.flags \ {flag})} :
            /\ After = array_values(r.this.map, r.this.array)
            /\ last'.ret = Ok(r.ret)
            /\ Result = array_values(r.result.map, r.result.array)

NotAfter(x, y) ==
    \/ Compared(x, y) \in {"Less", "Equal"}
    \/ Compared(y, x) \in {"Greater", "Equal"}

InSortedOrder(vs) ==
    \A k \in 1..(Len(vs) - 1) : NotAfter(vs[k], vs[k + 1])

IsIndex(v, n) == \E i \in 0..(n - 1) : Number(i) = v

IndexOf(v, n) == CHOOSE i \in 0..(n - 1) : Number(i) = v

KeepsTies(p) ==
    \A i, j \in 1..Len(Before) :
        (i < j /\ Compared(Before[p[i]], Before[p[j]]) = "Equal")
            => p[i] < p[j]

C25_Stable ==
    [][(IsSort /\ ~Aborted)
        => IF RETURN_INDEXED_ARRAY \in last'.args.flags
           THEN KeepsTies([k \in 1..Len(Before) |->
                              IndexOf(Result[k], Len(Before)) + 1])
           ELSE \E p \in IndexOrders(Len(Before)) :
                    /\ After = [k \in 1..Len(Before) |-> Before[p[k]]]
                    /\ KeepsTies(p)
      ]_vars

(***************************************************************************)
(* C26.  sort without RETURN_INDEXED_ARRAY and without a UNIQUE_SORT abort *)
(* reorders the receiver in place and returns it: the elements afterwards  *)
(* are a permutation of those before, length() is unchanged, every         *)
(* adjacent pair is in comparator order (reversed under DESCENDING), and   *)
(* with NUMERIC on an array of numbers the order is numeric.               *)
(***************************************************************************)
IsPermutation(vs, ws) ==
    /\ Len(vs) = Len(ws)
    /\ \E p \in IndexOrders(Len(ws)) : vs = [k \in 1..Len(ws) |-> ws[p[k]]]

\* The numbers vs in ascending order of their values, or in descending.
NumericOrder(vs, descending) ==
    \A k \in 1..(Len(vs) - 1) :
        IF descending
        THEN NumberValues[NumberOf(vs[k])].n >= NumberValues[NumberOf(vs[k + 1])].n
        ELSE NumberValues[NumberOf(vs[k])].n <= NumberValues[NumberOf(vs[k + 1])].n

Decided(f, x, y) ==
    IF f = "cmpNumeric" /\ IsNumber(x) /\ IsNumber(y)
    THEN IF NumberValues[NumberOf(x)].n > NumberValues[NumberOf(y)].n
         THEN "Greater"
         ELSE IF NumberValues[NumberOf(x)].n < NumberValues[NumberOf(y)].n
         THEN "Less"
         ELSE "Equal"
    ELSE "Equal"

\* The function, reversed under DESCENDING, does not put x after y.
DecidedNotAfter(x, y) ==
    Decided(last'.args.compare_fn, x, y)
        \in {IF DESCENDING \in last'.args.flags THEN "Greater" ELSE "Less",
             "Equal"}

DecidedTie ==
    \E i, j \in 1..Len(Before) :
        i # j /\ Decided(last'.args.compare_fn, Before[i], Before[j]) = "Equal"

C29_CustomCompare ==
    [][(IsSort /\ last'.args.compare_fn # "none")
        => LET n == Len(Before)
               flags == last'.args.flags
               order == IF RETURN_INDEXED_ARRAY \in flags
                        THEN [k \in 1..n |-> Before[IndexOf(Result[k], n) + 1]]
                        ELSE After
           IN  /\ Aborted <=> (UNIQUE_SORT \in flags /\ DecidedTie)
               /\ Aborted => After = Before
               /\ ~Aborted
                    => /\ \A k \in 1..(n - 1) :
                             DecidedNotAfter(order[k], order[k + 1])
                       /\ IF RETURN_INDEXED_ARRAY \in flags
                          THEN /\ After = Before
                               /\ last'.ret = Ok("[object Array]")
                               /\ IsPermutation(order, Before)
                          ELSE /\ last'.ret = Ok(Ref(last'.self))
                               /\ IsPermutation(After, Before)
      ]_vars

\* [1, 10, 2].sort(cmpNumeric, DESCENDING | CASE_INSENSITIVE) left
\* [10, 2, 1], where the order of the strings is "1" < "10" < "2".
C29_Witness ==
    /\ last.op = "sort"
    /\ last.args = [compare_fn |-> "cmpNumeric",
                    flags |-> {DESCENDING, CASE_INSENSITIVE}]
    /\ last.old = <<"#1", "#10", "#2">>
    /\ last.ret = Ok(Ref(1))
    /\ array_values(values[1], array[1]) = <<"#10", "#2", "#1">>

(***************************************************************************)
(* C27.  sortOn compares two elements field by field in the given order:   *)
(* the result is that of the first field whose two values compare          *)
(* non-equal, later fields are not read once such a field is found, and    *)
(* the elements compare equal only when every field compares equal.  The   *)
(* comparison leaves the heap as it was, so the fields are read in the     *)
(* state it ends in.                                                       *)
(***************************************************************************)
IsCompare == last.op = "sort_compare_fields"

\* The value of the k-th field of the element o.
FieldValue(o, k) ==
    get(values, prototype, Deref(o), last.fields[k], TRUE).res.val

\* What the compare function of the k-th field says of the two elements.
FieldAnswer(k) ==
    flags_compare(last.flags[k], FieldValue(last.a, k),
                  FieldValue(last.b, k))

\* The fields compared: up to the first that tells the elements apart.
FieldsCompared ==
    IF \E k \in 1..Len(last.fields) : FieldAnswer(k) # "Equal"
    THEN CHOOSE k \in 1..Len(last.fields) :
            /\ FieldAnswer(k) # "Equal"
            /\ \A j \in 1..(k - 1) : FieldAnswer(j) = "Equal"
    ELSE Len(last.fields)

RECURSIVE ReadsUpTo(_)
ReadsUpTo(k) ==
    IF k = 0 THEN <<>>
    ELSE ReadsUpTo(k - 1) \o <<<<last.a, last.fields[k]>>,
                               <<last.b, last.fields[k]>>>>

C27_FieldByField ==
    IsCompare
        => /\ last.ret.kind = "Ok"
           /\ last.ret.val = FieldAnswer(FieldsCompared)
           /\ last.reads = ReadsUpTo(FieldsCompared)
           /\ last.ret.val = "Equal"
                <=> \A k \in 1..Len(last.fields) : FieldAnswer(k) = "Equal"

(***************************************************************************)
(* C28.  In a call of sortOn that returns, with a flags array that has an  *)
(* entry for each field: UNIQUE_SORT and RETURN_INDEXED_ARRAY take effect  *)
(* exactly when they are set in the first entry, and NUMERIC and           *)
(* CASE_INSENSITIVE select the compare function of each field from that    *)
(* field's own entry.                                                      *)
(***************************************************************************)
IsSortOnWithFlagsArray ==
    /\ last'.op = "sort_on"
    /\ last'.ret.kind = "Ok"
    /\ last'.args.fields # <<>>
    /\ last'.args.flags.kind = "array"
    /\ Len(last'.args.flags.list) = Len(last'.args.fields)

\* The field k of the object o, read where the call began.
StoredField(o, fields, k) ==
    get(values, prototype, Deref(o), fields[k], TRUE).res.val

\* a against b on the fields from the k-th on, each field compared as its
\* own entry of list says.
RECURSIVE ByOwnFlags(_, _, _, _, _)
ByOwnFlags(fields, list, k, a, b) ==
    IF k > Len(fields) THEN "Equal"
    ELSE IF flags_compare(list[k] \cap {NUMERIC, CASE_INSENSITIVE},
                          StoredField(a, fields, k), StoredField(b, fields, k))
              # "Equal"
    THEN flags_compare(list[k] \cap {NUMERIC, CASE_INSENSITIVE},
                       StoredField(a, fields, k), StoredField(b, fields, k))
    ELSE ByOwnFlags(fields, list, k + 1, a, b)

\* vs is in the order of ByOwnFlags, reversed if descending.
InFieldOrder(vs, fields, list, descending) ==
    \A k \in 1..(Len(vs) - 1) :
        ByOwnFlags(fields, list, 1, vs[k], vs[k + 1])
            \in {IF descending THEN "Greater" ELSE "Less", "Equal"}

FieldTie(vs, fields, list) ==
    \E i, j \in 1..Len(vs) :
        i # j /\ ByOwnFlags(fields, list, 1, vs[i], vs[j]) = "Equal"

SortedOn(before, after, ret, result, fields, list) ==
    /\ (ret = Ok(Number(0))) <=> (/\ UNIQUE_SORT \in list[1]
                                  /\ FieldTie(before, fields, list))
    /\ ret = Ok(Number(0)) => after = before
    /\ ret # Ok(Number(0))
         => IF RETURN_INDEXED_ARRAY \in list[1]
            THEN /\ ret = Ok("[object Array]")
                 /\ after = before
                 /\ Len(result) = Len(before)
                 /\ \A k \in 1..Len(result) : IsIndex(result[k], Len(before))
                 /\ IsPermutation([k \in 1..Len(result) |->
                                      before[IndexOf(result[k], Len(before)) + 1]],
                                  before)
                 /\ InFieldOrder([k \in 1..Len(result) |->
                                     before[IndexOf(result[k], Len(before)) + 1]],
                                 fields, list, DESCENDING \in list[1])
            ELSE /\ ret = Ok(Ref(1))
                 /\ result = <<>>
                 /\ IsPermutation(after, before)
                 /\ InFieldOrder(after, fields, list, DESCENDING \in list[1])

StringForm(v) == IF v = Undefined THEN "" ELSE coerce_to_string(v)

HasStringForm(v) == v # Ref(2)

MaxDepth == 5

\* Most operations one callback performs on the object before it returns.
MaxReentries == 1

\* GcCell::read and GcCell::write: whether the borrow is granted, the state
\* while the guard lives, and the state once it is dropped.
can_read(b) == ~b.writer

can_write(b) == ~b.writer /\ b.readers = 0

borrow_read(b) == [b EXCEPT !.readers = @ + 1]

drop_read(b) == [b EXCEPT !.readers = @ - 1]

borrow_write(b) == [b EXCEPT !.writer = TRUE]

drop_write(b) == [b EXCEPT !.writer = FALSE]

\* A variant of upsert_borrow in which the guard of the write borrow lives
\* until set_local returns.
upsert_borrow_kept(b) == borrow_write(b)

\* The borrow state after the statement `let setter = match
\* self.0.write(gc_context).values.entry(..) { .. };` of set_local: the guard
\* is a temporary of the statement and is dropped at its end.
upsert_borrow(b) == drop_write(borrow_write(b))

\* The borrow state after `let watcher = self.0.read().watchers.get(..)
\* .cloned();` of set_local.
watcher_borrow(b) == drop_read(borrow_read(b))

\* The borrow state after `let getter = match self.0.read().values.get(..)
\* { .. };` of get_local.
lookup_borrow(b) == drop_read(borrow_read(b))

\* One call in progress.  pc: the statement it executes next; value, result
\* and aux: its locals; got: what its last callee returned; left: how many
\* operations a callback may still perform; held: the borrow state of the
\* object's cell when a callback was invoked; seen: the value map as it was
\* when set_local began.
Frame(fn, pc, self, name, value, result, aux, left, held) ==
    [fn |-> fn, pc |-> pc, self |-> self, name |-> name, value |-> value,
     result |-> result, aux |-> aux, got |-> Unit, left |-> left, held |-> held,
     seen |-> <<>>]

\* A conflicting borrow: the panic of GcCell::read or GcCell::write.
PanicFrame == Frame("panic", "", 0, "", Undefined, Unit, "none", 0, Unborrowed)

top == stack[Len(stack)]

Running(fn, pc) == stack # <<>> /\ top.fn = fn /\ top.pc = pc

\* The stack after the innermost call has stored into its locals.
Goto(pc, value, result, aux) ==
    [stack EXCEPT ![Len(stack)].pc = pc, ![Len(stack)].value = value,
                  ![Len(stack)].result = result, ![Len(stack)].aux = aux]

\* The stack after the innermost call returned r to its caller.
ReturnTo(stk, r) ==
    IF Len(stk) = 1 THEN <<>>
    ELSE [SubSeq(stk, 1, Len(stk) - 1) EXCEPT ![Len(stk) - 1].got = r]

\* executable.exec(label, .., args, ..): the callback starts to run.
Invoke(stk, self, label, f, args) ==
    Append(stk, Frame("callback", "body", self, label, args, exec(f, args), f,
                      MaxReentries, borrows[self]))

\* A script, or a callback that is running, calls set_local or get_local.
MayCall ==
    \/ stack = <<>>
    \/ /\ Running("callback", "body")
       /\ top.left > 0
       /\ Len(stack) < MaxDepth

Called(fn, pc, self, name, value) ==
    IF stack = <<>>
    THEN <<Frame(fn, pc, self, name, value, Unit, "none", 0, Unborrowed)>>
    ELSE Append([stack EXCEPT ![Len(stack)].left = @ - 1],
                Frame(fn, pc, self, name, value, Unit, "none", 0, Unborrowed))

CallSetLocal(self, name, value) ==
    /\ MayCall
    /\ stack' = Called("set_local", "watcher", self, name, value)
    /\ UNCHANGED <<objs, prototype, values, watchers, array, stage, borrows, last>>

CallGetLocal(self, name) ==
    /\ MayCall
    /\ stack' = Called("get_local", "lookup", self, name, Undefined)
    /\ UNCHANGED <<objs, prototype, values, watchers, array, stage, borrows, last>>

\* The innermost call after it has noted the value map it began with.
Seeing(stk, map) == [stk EXCEPT ![Len(stk)].seen = map]

\* set_local, line 274: the watcher registered for the name is cloned.
SetLocalWatcher ==
    /\ Running("set_local", "watcher")
    /\ IF can_read(borrows[top.self])
       THEN /\ borrows' = [borrows EXCEPT ![top.self] = watcher_borrow(@)]
            /\ stack' = Seeing(
                           IF contains_key(watchers[top.self], top.name, TRUE)
                           THEN Goto("old", top.value, Unit,
                                     watchers[top.self][
                                         MapIndex(watchers[top.self], top.name,
                                                  TRUE)].val)
                           ELSE Goto("upsert", top.value, Unit, "none"),
                           values[top.self])
       ELSE /\ stack' = Append(stack, PanicFrame)
            /\ UNCHANGED borrows
    /\ UNCHANGED <<objs, prototype, values, watchers, array, stage, last>>

\* set_local, line 279: self.get(name, activation) reads the old value; the
\* object has no prototype, so the read is get_local on the object itself.
SetLocalOld ==
    /\ Running("set_local", "old")
    /\ Len(stack) < MaxDepth
    /\ stack' = Append(Goto("watch", top.value, top.result, top.aux),
                       Frame("get_local", "lookup", top.self, top.name, Undefined,
                             Unit, "none", 0, Unborrowed))
    /\ UNCHANGED <<objs, prototype, values, watchers, array, stage, borrows, last>>

\* The old value as TObject::get hands it on: Undefined when no object of
\* the chain has the name.
old_value(got) == IF got.kind = "None" THEN Undefined ELSE got.val

\* set_local, lines 279-280: a thrown failure of the read is returned,
\* otherwise Watcher::call invokes the callback when it is executable.
SetLocalWatch ==
    /\ Running("set_local", "watch")
    /\ IF top.got.kind = "Thrown"
       THEN stack' = ReturnTo(stack, top.got)
       ELSE IF as_executable(top.aux.callback)
       THEN /\ Len(stack) < MaxDepth
            /\ stack' = Invoke(Goto("watched", top.value, top.result, top.aux),
                               top.self, top.name, top.aux.callback,
                               <<top.name, old_value(top.got), top.value,
                                 top.aux.user_data>>)
       ELSE stack' = [Goto("watched", top.value, top.result, top.aux)
                          EXCEPT ![Len(stack)].got = Ok(Undefined)]
    /\ UNCHANGED <<objs, prototype, values, watchers, array, stage, borrows, last>>

\* set_local, lines 280-287: what the watcher returned replaces the value.
SetLocalWatched ==
    /\ Running("set_local", "watched")
    /\ stack' = Goto("upsert",
                     IF top.got.kind = "Ok" THEN top.got.val ELSE Undefined,
                     IF top.got.kind = "Thrown" THEN top.got ELSE Unit,
                     "none")
    /\ UNCHANGED <<objs, prototype, values, watchers, array, stage, borrows, last>>

\* A variant of upsert_target: the map as it was when set_local began.
upsert_target_captured(current, captured) == captured

\* The map the upsert of set_local acts on: the one self.0.write(..) gives
\* when the statement runs.
upsert_target(current, captured) == current

\* set_local, lines 290-304: the upsert, under a write borrow.
SetLocalUpsert ==
    /\ Running("set_local", "upsert")
    /\ IF can_write(borrows[top.self])
       THEN \E u \in {set_local_upsert(upsert_target(values[top.self], top.seen),
                                       top.name, top.value, TRUE)} :
               /\ values' = [values EXCEPT ![top.self] = u.map]
               /\ borrows' = [borrows EXCEPT ![top.self] = upsert_borrow(@)]
               /\ stack' = Goto("setter", top.value, top.result, u.setter)
       ELSE /\ stack' = Append(stack, PanicFrame)
            /\ UNCHANGED <<values, borrows>>
    /\ UNCHANGED <<objs, prototype, watchers, array, stage, last>>

\* set_local, lines 306-315: the setter of a Virtual slot is invoked.
SetLocalSetter ==
    /\ Running("set_local", "setter")
    /\ IF top.aux # "none" /\ as_executable(top.aux)
       THEN /\ Len(stack) < MaxDepth
            /\ stack' = Invoke(Goto("set", top.value, top.result, top.aux),
                               top.self, "[Setter]", top.aux, <<top.value>>)
       ELSE stack' = ReturnTo(stack, top.result)
    /\ UNCHANGED <<objs, prototype, values, watchers, array, stage, borrows, last>>

\* set_local, lines 315-322: a thrown failure of the setter is returned, else
\* the tentative result.
SetLocalReturn ==
    /\ Running("set_local", "set")
    /\ stack' = ReturnTo(stack, setter_outcome(top.got, top.result))
    /\ UNCHANGED <<objs, prototype, values, watchers, array, stage, borrows, last>>

\* get_local, lines 226-239: the slot is looked up under a read borrow; a
\* Stored slot answers at once.
GetLocalLookup ==
    /\ Running("get_local", "lookup")
    /\ IF can_read(borrows[top.self])
       THEN /\ borrows' = [borrows EXCEPT ![top.self] = lookup_borrow(@)]
            /\ stack' =
                 IF ~contains_key(values[top.self], top.name, TRUE)
                 THEN ReturnTo(stack, None)
                 ELSE IF SlotOf(values, top.self, top.name, TRUE).kind = "Stored"
                 THEN ReturnTo(stack,
                               Ok(SlotOf(values, top.self, top.name, TRUE).value))
                 ELSE Goto("getter", top.value, top.result,
                           SlotOf(values, top.self, top.name, TRUE).get)
       ELSE /\ stack' = Append(stack, PanicFrame)
            /\ UNCHANGED borrows
    /\ UNCHANGED <<objs, prototype, values, watchers, array, stage, last>>

\* get_local, lines 241-255: the getter is invoked when it is executable.
GetLocalGetter ==
    /\ Running("get_local", "getter")
    /\ IF as_executable(top.aux)
       THEN /\ Len(stack) < MaxDepth
            /\ stack' = Invoke(Goto("got", top.value, top.result, top.aux),
                               top.self, "[Getter]", top.aux, <<>>)
       ELSE stack' = ReturnTo(stack, None)
    /\ UNCHANGED <<objs, prototype, values, watchers, array, stage, borrows, last>>

GetLocalReturn ==
    /\ Running("get_local", "got")
    /\ stack' = ReturnTo(stack, getter_result(top.got))
    /\ UNCHANGED <<objs, prototype, values, watchers, array, stage, borrows, last>>

\* A callback deletes a property of the object: ScriptObject::delete borrows
\* the cell for writing.
ReenterDelete(name) ==
    /\ Running("callback", "body")
    /\ top.left > 0
    /\ IF can_write(borrows[top.self])
       THEN /\ values' = [values EXCEPT
                             ![top.self] = delete(values[top.self], name, TRUE).map]
            /\ stack' = [stack EXCEPT ![Len(stack)].left = @ - 1]
       ELSE /\ stack' = Append(stack, PanicFrame)
            /\ UNCHANGED values
    /\ UNCHANGED <<objs, prototype, watchers, array, stage, borrows, last>>

\* A callback changes the attributes of a property of the object.
ReenterSetAttributes(name, set_mask, clear_mask) ==
    /\ Running("callback", "body")
    /\ top.left > 0
    /\ IF can_write(borrows[top.self])
       THEN /\ values' = [values EXCEPT
                             ![top.self] = set_attributes(@, name, set_mask,
                                                          clear_mask)]
            /\ stack' = [stack EXCEPT ![Len(stack)].left = @ - 1]
       ELSE /\ stack' = Append(stack, PanicFrame)
            /\ UNCHANGED values
    /\ UNCHANGED <<objs, prototype, watchers, array, stage, borrows, last>>

\* A callback makes a property of the object an accessor.
ReenterAddProperty(name, getter, setter) ==
    /\ Running("callback", "body")
    /\ top.left > 0
    /\ IF can_write(borrows[top.self])
       THEN /\ values' = [values EXCEPT
                             ![top.self] = add_property(@, name, getter, setter,
                                                        {})]
            /\ stack' = [stack EXCEPT ![Len(stack)].left = @ - 1]
       ELSE /\ stack' = Append(stack, PanicFrame)
            /\ UNCHANGED values
    /\ UNCHANGED <<objs, prototype, watchers, array, stage, borrows, last>>

\* A callback enumerates the object: get_keys borrows the cell for reading.
ReenterGetKeys ==
    /\ Running("callback", "body")
    /\ top.left > 0
    /\ stack' = IF can_read(borrows[top.self])
                THEN [stack EXCEPT ![Len(stack)].left = @ - 1]
                ELSE Append(stack, PanicFrame)
    /\ UNCHANGED <<objs, prototype, values, watchers, array, stage, borrows, last>>

\* The callback returns what exec yields.
CallbackReturn ==
    /\ Running("callback", "body")
    /\ stack' = ReturnTo(stack, top.result)
    /\ UNCHANGED <<objs, prototype, values, watchers, array, stage, borrows, last>>

\* Object 1 with no slot, a Stored slot or a Virtual slot for "a", and with
\* or without a watcher for it.
BorrowSlots ==
    {<<>>} \cup
    {<<[key |-> "a", val |-> Stored("x", at)]>> : at \in {{}, {READ_ONLY}}} \cup
    {<<[key |-> "a", val |-> Virtual(g, s, {})]>> :
        g \in Callables, s \in Callables \cup {"none"}}

BorrowWatchers ==
    {<<>>} \cup {<<[key |-> "a", val |-> Watcher(f, "u")]>> : f \in Callables}

InitBorrow ==
    /\ objs = 1
    /\ prototype = <<0>>
    /\ values \in {<<m>> : m \in BorrowSlots}
    /\ watchers \in {<<w>> : w \in BorrowWatchers}
    /\ array = <<PropertiesStorage>>
    /\ Idle
    /\ last = InitLast

NextBorrow ==
    \/ CallSetLocal(1, "a", "y")
    \/ CallGetLocal(1, "a")
    \/ SetLocalWatcher
    \/ SetLocalOld
    \/ SetLocalWatch
    \/ SetLocalWatched
    \/ SetLocalUpsert
    \/ SetLocalSetter
    \/ SetLocalReturn
    \/ GetLocalLookup
    \/ GetLocalGetter
    \/ GetLocalReturn
    \/ ReenterDelete("a")
    \/ ReenterSetAttributes("a", {READ_ONLY}, {})
    \/ ReenterAddProperty("a", "fConst", "fThrow")
    \/ ReenterGetKeys
    \/ CallbackReturn

SpecBorrow == InitBorrow /\ [][NextBorrow]_vars

(***************************************************************************)
(* C31.  Whenever get_local or set_local invokes a getter, setter or       *)
(* watcher callback, no borrow of the object's cell is held, neither for   *)
(* reading nor for writing, so that a get, set, delete or enumeration the  *)
(* callback performs on the same object never meets a conflicting borrow.  *)
(***************************************************************************)
C31_NoBorrowAcrossCallbacks ==
    \A i \in 1..Len(stack) :
        /\ stack[i].fn = "callback" => stack[i].held = Unborrowed
        /\ stack[i].fn # "panic"

\* A setter invoked by set_local has set the same property again, and the
\* inner set_local has completed its upsert.
C31_Witness ==
    /\ Len(stack) = 3
    /\ stack[1].fn = "set_local"
    /\ stack[1].pc = "set"
    /\ stack[2].fn = "callback"
    /\ stack[2].name = "[Setter]"
    /\ stack[3].fn = "set_local"
    /\ stack[3].pc = "setter"

(***************************************************************************)
(* C32.  Under the case-insensitive policy, set_local(n2, v) where n2      *)
(* differs only in letter case from an existing key n1 updates the slot    *)
(* the lookup finds instead of creating one: the keys, their casing and    *)
(* their order are unchanged, get_keys reports the original casing, and    *)
(* the other slots are untouched.  A get under either casing then returns  *)
(* v when the slot is Stored and not READ_ONLY, the old value when it is   *)
(* READ_ONLY; a Virtual slot is left as it is.                             *)
(***************************************************************************)
\* The map has a key that differs from name in letter case only.
CaseVariantKey(map, name) ==
    \E i \in 1..Len(map) : map[i].key # name /\ Fold(map[i].key) = Fold(name)

\* A case-insensitive set_local on object 1, which has no watcher, of a name
\* with a case variant among the keys.
IsCaseVariantSet ==
    /\ last'.op = "set_local"
    /\ ~last'.cs
    /\ last'.self = 1
    /\ ~HasWatcher(watchers, 1, last'.name, FALSE)
    /\ CaseVariantKey(values[1], last'.name)

\* Both spellings read v after the call.
ReadsBack(v) ==
    \A n \in {last'.name} \cup {values[1][i].key : i \in 1..Len(values[1])} :
        Fold(n) = Fold(last'.name)
            => get(values', prototype', 1, n, FALSE).res = Ok(v)

C32_AsClaimed ==
    [][IsCaseVariantSet
        => /\ Len(values'[1]) = Len(values[1])
           /\ MapKeys(values'[1]) = MapKeys(values[1])
           /\ ReadsBack(last'.value)
      ]_vars

C32_CaseVariantSet ==
    [][IsCaseVariantSet
        => /\ Len(values'[1]) = Len(values[1])
           /\ MapKeys(values'[1]) = MapKeys(values[1])
           /\ get_keys(values', prototype', 1, FALSE)
                  = get_keys(values, prototype, 1, FALSE)
           /\ \A i \in 1..Len(values[1]) :
                 i # MapIndex(values[1], last'.name, FALSE)
                     => values'[1][i] = values[1][i]
           /\ \E p \in {SlotOf(values, 1, last'.name, FALSE)} :
                 /\ (p.kind = "Stored" /\ READ_ONLY \notin p.attributes)
                        => ReadsBack(last'.value)
                 /\ (p.kind = "Stored" /\ READ_ONLY \in p.attributes)
                        => ReadsBack(p.value)
                 /\ p.kind = "Virtual"
                        => SlotOf(values', 1, last'.name, FALSE) = p
      ]_vars

\* set_local("A", "y") under the case-insensitive policy on an object whose
\* only key is "a": the key stays "a" and holds "y".
C32_Witness ==
    /\ last.op = "set_local"
    /\ last.name = "A"
    /\ ~last.cs
    /\ last.value = "y"
    /\ values[1] = <<[key |-> "a", val |-> Stored("y", {})]>>

(***************************************************************************)
(* SpecStage: the stage's sizes under set_movie_size, set_viewport_size,   *)
(* set_scale_mode and set_align.  Of the view matrix the model keeps the   *)
(* two scale factors; its translation and the view bounds are computed     *)
(* from the same fields and read by none of these operations.              *)
(***************************************************************************)
\* Largest width, height and viewport scale factor.
MaxSize == 2

\* Most resize events the model counts.
MaxResizes == 2

Sizes == 1..MaxSize

ScaleFactors == 1..MaxSize

\* StageAlign flags.
StageAligns == {{}, {"LEFT"}, {"TOP", "RIGHT"}}

\* f64::from(size) / scale_factor, rounded to the nearest integer, halves
\* away from zero.
round_div(size, scale_factor) == (2 * size + scale_factor) \div (2 * scale_factor)

\* Stage::stage_size, Stage::movie_size
stage_size(st) == st.stage_size

movie_size(st) == st.movie_size

\* build_matrices: the stage size that goes with the scale mode.
build_stage_size(st) ==
    IF st.scale_mode = NoScale
    THEN <<round_div(st.viewport_size[1], st.viewport_scale_factor),
           round_div(st.viewport_size[2], st.viewport_scale_factor)>>
    ELSE st.movie_size

\* build_matrices: the scale factors (scale_x, scale_y) of the view matrix.
\* viewport_aspect > movie_aspect is compared by cross-multiplication.
build_scale(st) ==
    LET mw == st.movie_size[1]
        mh == st.movie_size[2]
        vw == st.viewport_size[1]
        vh == st.viewport_size[2]
    IN  CASE st.scale_mode = ShowAll ->
                 IF vw * mh > mw * vh THEN <<<<vh, mh>>, <<vh, mh>>>>
                 ELSE <<<<vw, mw>>, <<vw, mw>>>>
          [] st.scale_mode = NoBorder ->
                 IF vw * mh < mw * vh THEN <<<<vh, mh>>, <<vh, mh>>>>
                 ELSE <<<<vw, mw>>, <<vw, mw>>>>
          [] st.scale_mode = ExactFit -> <<<<vw, mw>>, <<vh, mh>>>>
          [] OTHER -> <<<<st.viewport_scale_factor, 1>>,
                        <<st.viewport_scale_factor, 1>>>>

\* Stage::build_matrices
build_matrices(st) ==
    [st EXCEPT !.stage_size = build_stage_size(st),
               !.scale = build_scale(st),
               !.resizes = IF /\ st.scale_mode = NoScale
                              /\ build_stage_size(st) # st.stage_size
                              /\ st.resizes < MaxResizes
                           THEN st.resizes + 1 ELSE st.resizes]

\* Stage::set_movie_size stores the size and nothing else.
set_movie_size(st, width, height) == [st EXCEPT !.movie_size = <<width, height>>]

\* Stage::set_scale_mode
set_scale_mode(st, scale_mode) ==
    build_matrices([st EXCEPT !.scale_mode = scale_mode])

\* Stage::set_align
set_align(st, align) == build_matrices([st EXCEPT !.align = align])

\* Stage::set_viewport_size
set_viewport_size(st, width, height, scale_factor) ==
    build_matrices([st EXCEPT !.viewport_size = <<width, height>>,
                              !.viewport_scale_factor = scale_factor])

StageOp(op, args) ==
    [op |-> op, self |-> 0, name |-> "", cs |-> TRUE, value |-> Undefined,
     this |-> 0, base_proto |-> 0, ret |-> Unit, calls |-> <<>>, keys |-> <<>>,
     args |-> args]

SetMovieSize(width, height) ==
    /\ stage' = set_movie_size(stage, width, height)
    /\ last' = StageOp("set_movie_size", <<width, height>>)
    /\ UNCHANGED <<objs, prototype, values, watchers, array, borrows, stack>>

SetScaleMode(scale_mode) ==
    /\ stage' = set_scale_mode(stage, scale_mode)
    /\ last' = StageOp("set_scale_mode", <<scale_mode>>)
    /\ UNCHANGED <<objs, prototype, values, watchers, array, borrows, stack>>

SetAlign(align) ==
    /\ stage' = set_align(stage, align)
    /\ last' = StageOp("set_align", <<align>>)
    /\ UNCHANGED <<objs, prototype, values, watchers, array, borrows, stack>>

SetViewportSize(width, height, scale_factor) ==
    /\ stage' = set_viewport_size(stage, width, height, scale_factor)
    /\ last' = StageOp("set_viewport_size", <<width, height, scale_factor>>)
    /\ UNCHANGED <<objs, prototype, values, watchers, array, borrows, stack>>

InitStage ==
    /\ objs = 1
    /\ prototype = <<0>>
    /\ values = <<<<>>>>
    /\ watchers = <<<<>>>>
    /\ array = <<PropertiesStorage>>
    /\ stage \in {EmptyStage(w, h) : w \in Sizes, h \in Sizes}
    /\ borrows = [o \in 1..MaxObjs |-> Unborrowed]
    /\ stack = <<>>
    /\ last = InitLast

NextStage ==
    \/ \E w \in Sizes, h \in Sizes : SetMovieSize(w, h)
    \/ \E m \in StageScaleModes : SetScaleMode(m)
    \/ \E a \in StageAligns : SetAlign(a)
    \/ \E w \in Sizes, h \in Sizes, f \in ScaleFactors : SetViewportSize(w, h, f)

SpecStage == InitStage /\ [][NextStage]_vars

(***************************************************************************)
(* C33.  In every state reachable through set_movie_size,                  *)
(* set_viewport_size, set_scale_mode and set_align, stage_size() equals    *)
(* movie_size() whenever the scale mode is not NoScale, and equals the     *)
(* viewport size (at viewport scale factor 1) whenever it is NoScale.      *)
(***************************************************************************)
C33_StageSize ==
    /\ stage.scale_mode # NoScale => stage_size(stage) = movie_size(stage)
    /\ (stage.scale_mode = NoScale /\ stage.viewport_scale_factor = 1)
           => stage_size(stage) = stage.viewport_size

(***************************************************************************)
(* SpecCase: slots whose keys differ in letter case only, on an array      *)
(* object and on a plain object, under set_attributes, add_property and    *)
(* set_length, called for content with case-sensitive names.               *)
(***************************************************************************)
CaseNames == {"a", "A"}

NextCase ==
    \/ \E n \in CaseNames \cup {"Length"} : DefineValue(1, n, "x", {})
    \/ \E n \in CaseNames : AddProperty(1, n, "fConst", "none", {})
    \/ \E n \in CaseNames, m \in {<<{DONT_ENUM}, {}>>, <<{}, {DONT_ENUM}>>} :
            SetAttributes(1, n, m[1], m[2])
    \/ \E n \in 0..MaxIndex : SetLength(1, n)
    \/ Delete(1, "length", TRUE)

SpecCase == InitArray /\ [][NextCase]_vars

(***************************************************************************)
(* C34.  Under the case-sensitive policy set_attributes(name, ..),         *)
(* add_property(name, ..) and the synchronisation of "length" into the     *)
(* value map only read or modify the slot whose key equals the name        *)
(* exactly: a slot whose key differs from the name in letter case is left  *)
(* as it is.                                                               *)
(***************************************************************************)
\* Every slot of object 1 whose key is a case variant of name, but not name
\* itself, is in the map afterwards as it was.
CaseVariantsKept(name) ==
    \A i \in 1..Len(values[1]) :
        (values[1][i].key # name /\ Fold(values[1][i].key) = Fold(name))
            => \E j \in 1..Len(values'[1]) : values'[1][j] = values[1][i]

C34_ExactName ==
    [][/\ last'.op \in {"set_attributes", "add_property"}
            => CaseVariantsKept(last'.name)
       /\ last'.op = "set_length" => CaseVariantsKept("length")
      ]_vars

(***************************************************************************)
(* C35.  The upsert of set_local acts on the value map as the watcher      *)
(* callback left it, not on the map set_local began with: when the         *)
(* callback deleted the name, the upsert creates a Stored slot with no     *)
(* attributes that holds the value the watcher returned; when the callback *)
(* made the slot READ_ONLY, its value stays; when the callback made it a   *)
(* Virtual slot, nothing is stored and the setter of that slot is invoked. *)
(***************************************************************************)
\* set_local is about to upsert after its watcher's callback has run, and
\* the upsert is granted its borrow.
UpsertAfterWatcher ==
    /\ Running("set_local", "upsert")
    /\ contains_key(watchers[top.self], top.name, TRUE)
    /\ stack'[Len(stack)].pc = "setter"

C35_UpsertAfterCallback ==
    [][/\ UpsertAfterWatcher
            => IF ~contains_key(values[top.self], top.name, TRUE)
               THEN /\ values'[top.self]
                           = Append(values[top.self],
                                    [key |-> top.name,
                                     val |-> Stored(top.value, {})])
                    /\ stack'[Len(stack)].aux = "none"
               ELSE \E p \in {SlotOf(values, top.self, top.name, TRUE)} :
                       /\ (p.kind = "Stored" /\ READ_ONLY \in p.attributes)
                              => values' = values
                       /\ (p.kind = "Stored" /\ READ_ONLY \notin p.attributes)
                              => SlotOf(values', top.self, top.name, TRUE)
                                     = Stored(top.value, p.attributes)
                       /\ p.kind = "Virtual"
                              => /\ values' = values
                                 /\ stack'[Len(stack)].aux = p.set
       /\ (Running("set_local", "setter") /\ as_executable(top.aux)
                                          /\ Len(stack) < MaxDepth)
            => /\ Len(stack') = Len(stack) + 1
               /\ stack'[Len(stack')].fn = "callback"
               /\ stack'[Len(stack')].name = "[Setter]"
               /\ stack'[Len(stack')].aux = top.aux
               /\ stack'[Len(stack')].value = <<top.value>>
      ]_vars

\* set_local began with a READ_ONLY Stored slot "x"; the watcher's callback
\* deleted it and returned "c"; the upsert created a plain slot holding "c".
C35_Witness ==
    /\ Len(stack) = 1
    /\ Running("set_local", "setter")
    /\ top.seen = <<[key |-> "a", val |-> Stored("x", {READ_ONLY})]>>
    /\ top.value = "c"
    /\ values[1] = <<[key |-> "a", val |-> Stored("c", {})]>>

(***************************************************************************)
(* SpecCycle: has_property and get_keys call by call along the prototype   *)
(* chain of two objects whose prototypes set_proto may set to anything,    *)
(* the object itself included.  The native stack holds MaxDepth calls; a   *)
(* deeper call overflows it, which ends the process.                       *)
(***************************************************************************)
\* ScriptObject::set_proto
set_proto(protos, self, proto) == [protos EXCEPT ![self] = proto]

\* get_keys once the keys of the prototype are known.
get_keys_own(proto_keys, map, case_sensitive) ==
    LET NotLocal(k) == ~contains_key(map, k, case_sensitive)
        Enumerable(e) == is_enumerable(e.val)
    IN  SelectSeq(proto_keys, NotLocal) \o MapKeys(SelectSeq(map, Enumerable))

Keys(keys) == [kind |-> "Keys", val |-> keys]

SetProto(self, proto) ==
    /\ stack = <<>>
    /\ prototype' = set_proto(prototype, self, proto)
    /\ last' = Op("set_proto", self, "", TRUE, Undefined, proto, 0, Unit, <<>>,
                  <<>>)
    /\ UNCHANGED <<objs, values, watchers, array, stage, borrows, stack>>

\* The innermost call returns r; the outermost call leaves it in last.
Finish(r) ==
    /\ stack' = ReturnTo(stack, r)
    /\ last' = IF Len(stack) = 1
               THEN Op(top.fn, top.self, top.name, TRUE, Undefined, 0, 0, r,
                       <<>>, <<>>)
               ELSE last

\* The native stack is exhausted: the process is aborted.
OverflowFrame ==
    Frame("overflow", "", 0, "", Undefined, Unit, "none", 0, Unborrowed)

\* The innermost call calls fn on the prototype of its object; a call the
\* native stack has no room for aborts the process.
Descend(fn, pc, then) ==
    /\ stack' = IF Len(stack) < MaxDepth
                THEN Append(Goto(then, top.value, top.result, top.aux),
                            Frame(fn, pc, prototype[top.self], top.name,
                                  Undefined, Unit, "none", 0, Unborrowed))
                ELSE Append(stack, OverflowFrame)
    /\ UNCHANGED last

CallHasProperty(self, name) ==
    /\ stack = <<>>
    /\ stack' = <<Frame("has_property", "own", self, name, Undefined, Unit,
                        "none", 0, Unborrowed)>>
    /\ UNCHANGED <<objs, prototype, values, watchers, array, stage, borrows, last>>

\* has_property: has_own_property, or else has_property of the prototype.
HasPropertyOwn ==
    /\ Running("has_property", "own")
    /\ IF has_own_property(values, top.self, top.name, TRUE)
       THEN Finish(Bool(TRUE))
       ELSE IF prototype[top.self] # 0
       THEN Descend("has_property", "own", "proto")
       ELSE Finish(Bool(FALSE))
    /\ UNCHANGED <<objs, prototype, values, watchers, array, stage, borrows>>

HasPropertyProto ==
    /\ Running("has_property", "proto")
    /\ Finish(top.got)
    /\ UNCHANGED <<objs, prototype, values, watchers, array, stage, borrows>>

CallGetKeys(self) ==
    /\ stack = <<>>
    /\ stack' = <<Frame("get_keys", "proto", self, "", Undefined, Unit, "none",
                        0, Unborrowed)>>
    /\ UNCHANGED <<objs, prototype, values, watchers, array, stage, borrows, last>>

\* get_keys: the keys of the prototype first.
GetKeysProto ==
    /\ Running("get_keys", "proto")
    /\ IF prototype[top.self] # 0
       THEN Descend("get_keys", "proto", "own")
       ELSE /\ stack' = [Goto("own", top.value, top.result, top.aux)
                             EXCEPT ![Len(stack)].got = Keys(<<>>)]
            /\ UNCHANGED last
    /\ UNCHANGED <<objs, prototype, values, watchers, array, stage, borrows>>

GetKeysOwn ==
    /\ Running("get_keys", "own")
    /\ Finish(Keys(get_keys_own(top.got.val, values[top.self], TRUE)))
    /\ UNCHANGED <<objs, prototype, values, watchers, array, stage, borrows>>

NextCycle ==
    \/ \E o \in 1..2, p \in 0..2 : SetProto(o, p)
    \/ \E o \in 1..2, at \in {{}, {DONT_ENUM}} :
            stack = <<>> /\ DefineValue(o, "a", "x", at)
    \/ \E o \in 1..2 : stack = <<>> /\ Delete(o, "a", TRUE)
    \/ \E o \in 1..2, n \in {"a", "b"} : CallHasProperty(o, n)
    \/ HasPropertyOwn
    \/ HasPropertyProto
    \/ \E o \in 1..2 : CallGetKeys(o)
    \/ GetKeysProto
    \/ GetKeysOwn

SpecCycle == Init /\ [][NextCycle]_vars

\* A call that can take a step takes it.
SpecCycleFair == SpecCycle /\ WF_vars(NextCycle)

(***************************************************************************)
(* C36.  has_property(name) and get_keys() terminate for every object,     *)
(* also when set_proto has made the prototype chain cyclic (an object      *)
(* that is its own prototype): every call that has begun returns.          *)
(***************************************************************************)
C36_Terminates == (stack # <<>>) ~> (stack = <<>>)

(***************************************************************************)
(* SpecOldThrows: object 2, whose prototype is object 1, with a watcher    *)
(* for "a"; the name is a Stored or Virtual slot of object 2, or of        *)
(* object 1 only, and its getter may throw.                                *)
(***************************************************************************)
NextOldThrows ==
    \/ \E g \in {"fConst", "fThrow"} : AddProperty(1, "a", g, "none", {})
    \/ Delete(1, "a", TRUE)
    \/ \E g \in {"fConst", "fThrow", "fFail"}, st \in {"fConst", "none"} :
            AddProperty(2, "a", g, st, {})
    \/ DefineValue(2, "a", "x", {})
    \/ Delete(2, "a", TRUE)
    \/ \E f \in {"fConst", "fThrow", "obj"} : SetWatcher(2, "a", f, "u", TRUE)
    \/ RemoveWatcher(2, "a", TRUE)
    \/ \E v \in UserValues, cs \in BOOLEAN : SetLocal(2, "a", v, cs, 2, 0)

SpecOldThrows == Init /\ [][NextOldThrows]_vars

(***************************************************************************)
(* C37.  When a watcher is registered for name and reading the old value   *)
(* throws (the getter of a Virtual slot for name, on the object or on its  *)
(* prototype chain, throws), set_local returns the thrown value at once:   *)
(* the watcher is not invoked, the setter is not invoked and the value     *)
(* map is unchanged.                                                       *)
(***************************************************************************)
C37_OldValueThrows ==
    [][(/\ last'.op = "set_local"
        /\ HasWatcher(watchers, last'.self, last'.name, last'.cs)
        /\ OldRead.kind = "Thrown")
        => /\ last'.ret = OldRead
           /\ last'.calls = get(values, prototype, last'.self, last'.name,
                                last'.cs).calls
           /\ \A k \in 1..Len(last'.calls) : last'.calls[k].label = "[Getter]"
           /\ values' = values
      ]_vars

\* set_local of "a" on object 2, which has an invocable watcher for "a" and
\* an accessor "a" with a getter that throws and an invocable setter: only
\* the getter was called.
C37_Witness ==
    /\ last.op = "set_local"
    /\ last.self = 2
    /\ last.ret = Thrown("e0")
    /\ Len(last.calls) = 1
    /\ HasWatcher(watchers, 2, "a", TRUE)
    /\ as_executable(WatcherOf(watchers, 2, "a", TRUE).callback)
    /\ HasSlot(values, 2, "a", TRUE)
    /\ SlotOf(values, 2, "a", TRUE) = Virtual("fThrow", "fConst", {})

(***************************************************************************)
(* C38 as stated.  When the callback of the watcher is not invocable,      *)
(* set_local(name, v) invokes no callback and uses Undefined instead of v  *)
(* for the upsert: a Stored slot that is not READ_ONLY holds Undefined     *)
(* afterwards and set_local returns success.                               *)
(***************************************************************************)
\* The set_local that is last' finds a watcher whose callback is not
\* invocable.
SetWithIdleWatcher ==
    /\ last'.op = "set_local"
    /\ HasWatcher(watchers, last'.self, last'.name, last'.cs)
    /\ ~as_executable(WatcherOf(watchers, last'.self, last'.name,
                                last'.cs).callback)

\* The slot of the name before the call is Stored, with READ_ONLY or without.
StoredBefore(read_only) ==
    /\ HasSlot(values, last'.self, last'.name, last'.cs)
    /\ SlotOf(values, last'.self, last'.name, last'.cs).kind = "Stored"
    /\ (READ_ONLY \in SlotOf(values, last'.self, last'.name,
                             last'.cs).attributes) = read_only

\* The slot holds Undefined afterwards and is otherwise as it was.
HoldsUndefined ==
    /\ values'[last'.self]
           = [values[last'.self] EXCEPT
                 ![MapIndex(values[last'.self], last'.name,
                            last'.cs)].val.value = Undefined]
    /\ last'.ret = Unit

C38_AsClaimed ==
    [][SetWithIdleWatcher
        => /\ last'.calls = <<>>
           /\ StoredBefore(FALSE) => HoldsUndefined
      ]_vars

(***************************************************************************)
(* C38.  When the callback of the watcher is not invocable, set_local      *)
(* invokes no watcher callback and, unless reading the old value throws,   *)
(* uses Undefined instead of v for the upsert.  On a Stored slot no        *)
(* callback at all is invoked and set_local returns success: the slot      *)
(* holds Undefined afterwards unless it is READ_ONLY, and then it is       *)
(* unchanged.  With no slot a Stored slot holding Undefined is created.    *)
(* On a Virtual slot the getter is invoked to read the old value and the   *)
(* setter, when invocable, is invoked with Undefined.                      *)
(***************************************************************************)
C38_IdleWatcher ==
    [][SetWithIdleWatcher
        => /\ \A k \in 1..Len(last'.calls) :
                 last'.calls[k].label \in {"[Getter]", "[Setter]"}
           /\ StoredBefore(FALSE) => (HoldsUndefined /\ last'.calls = <<>>)
           /\ StoredBefore(TRUE)
                => /\ values' = values
                   /\ last'.ret = Unit
                   /\ last'.calls = <<>>
           /\ (~HasSlot(values, last'.self, last'.name, last'.cs)
                  /\ OldRead.kind # "Thrown")
                => /\ values'[last'.self]
                          = Append(values[last'.self],
                                   [key |-> last'.name,
                                    val |-> Stored(Undefined, {})])
                   /\ last'.ret = Unit
           /\ (IsVirtual(values, last'.self, last'.name, last'.cs)
                  /\ OldRead.kind # "Thrown")
                => /\ values' = values
                   /\ \A k \in 1..Len(last'.calls) :
                         last'.calls[k].label = "[Setter]"
                             => last'.calls[k].args = <<Undefined>>
                   /\ as_executable(SlotOf(values, last'.self, last'.name,
                                           last'.cs).set)
                         => \E k \in 1..Len(last'.calls) :
                               last'.calls[k].label = "[Setter]"
      ]_vars

\* set_local("a", "x") on an object whose watcher for "a" has a callback
\* that is not invocable: no callback ran and the slot holds Undefined.
C38_Witness ==
    /\ last.op = "set_local"
    /\ last.name = "a"
    /\ last.value = "x"
    /\ last.ret = Unit
    /\ last.calls = <<>>
    /\ HasWatcher(watchers, 1, "a", TRUE)
    /\ WatcherOf(watchers, 1, "a", TRUE).callback = "obj"
    /\ values[1] = <<[key |-> "a", val |-> Stored(Undefined, {})]>>

(***************************************************************************)
(* SpecSortMutated: sort with a compare function that, besides answering,  *)
(* changes the array it is sorting: it writes "z" at position 0, or at the *)
(* position after the last element, or both, or sets the length to 0.      *)
(***************************************************************************)
ComparatorEffects == {"none", "write", "append", "both", "shrink"}

\* The array as a comparator with the given effect leaves it; n is the
\* length of the array when the sort began.
comparator_effect(this, n, effect) ==
    CASE effect = "write" -> this_set_array_element(this, 0, "z")
      [] effect = "append" -> this_set_array_element(this, n, "z")
      [] effect = "both" ->
             this_set_array_element(this_set_array_element(this, 0, "z"), n, "z")
      [] effect = "shrink" -> this_set_length(this, 0)
      [] OTHER -> this

\* The array when sort_unstable_by returns: a slice of fewer than two
\* elements is sorted without a comparison, and without a compare function
\* no script runs.
after_comparator(this, vs, compare_fn, effect) ==
    IF compare_fn # "none" /\ Len(vs) >= 2
    THEN comparator_effect(this, Len(vs), effect)
    ELSE this

\* sort(compare_fn, flags) with such a compare function: the elements are
\* read before the sort and written back into the array as the compare
\* function left it.
SortMutated(self, compare_fn, flags, effect) ==
    \E sorted \in sort_unstable_by(array_values(values[self], array[self]),
                                   compare_fn, flags) :
        \E left \in {after_comparator(This(values[self], array[self]),
                                      array_values(values[self], array[self]),
                                      compare_fn, effect)} :
            \E r \in {sort_with_function(left, self,
                                         array_values(values[self], array[self]),
                                         sorted, flags)} :
                /\ values' = [values EXCEPT ![self] = r.this.map]
                /\ array' = [array EXCEPT ![self] = r.this.array]
                /\ last' = BuiltinOp("sort", self,
                                     [compare_fn |-> compare_fn, flags |-> flags,
                                      effect |-> effect,
                                      left |-> array_values(left.map, left.array)],
                                     Ok(r.ret),
                                     array_values(r.result.map, r.result.array))
                /\ UNCHANGED <<objs, prototype, watchers, outside>>

SortMutatedCalls == {"none", "cmpNumeric"} \X SortFlags \X ComparatorEffects

NextSortMutated ==
    \E call \in IF last = InitLast THEN SortMutatedCalls ELSE {} :
        SortMutated(1, call[1], call[2], call[3])

SpecSortMutated == InitSort /\ [][NextSortMutated]_vars

reverse_in_order(this, self) ==
    Returned(set_elements(this, 0, array_values(this.map, this.array), 1),
             Ref(self))

\* Array.prototype.reverse: values is a copy of this.array(); position i gets
\* what values.pop() gives, for i from 0 to the length.
reverse(this, self) ==
    Returned(set_elements(this, 0,
                          [i \in 1..length(this.array) |->
                              array_values(this.map, this.array)[
                                  Len(array_values(this.map, this.array)) - i + 1]],
                          1),
             Ref(self))

Reverse(self) ==
    Builtin("reverse", self, <<>>, reverse(This(values[self], array[self]), self))

NextSequence ==
    \/ \E args \in Items : Push(1, args)
    \/ \E args \in Items : Unshift(1, args)
    \/ Shift(1, TRUE)
    \/ Pop(1, TRUE)
    \/ Reverse(1)
    \/ SetAttributes(1, "1", {DONT_DELETE, READ_ONLY}, {})
    \/ AddProperty(1, "2", "fConst", "fConst", {DONT_DELETE})

SpecSequence == InitBuiltins /\ [][NextSequence]_vars

(***************************************************************************)
(* C40.  On an array with Vector storage push, pop, shift, unshift and     *)
(* reverse do to array() what they do to a sequence s: push(a..) gives s   *)
(* followed by a and returns the new length; unshift(a..) gives a followed *)
(* by s and returns the new length; pop removes and returns the last       *)
(* element, shift the first, and on an empty array both return Undefined   *)
(* and change nothing; reverse reverses s in place and returns the         *)
(* receiver, and applied twice it restores s.                              *)
(***************************************************************************)
Reversed(s) == [i \in 1..Len(s) |-> s[Len(s) - i + 1]]

\* array() after the operation that is last'.
Sequence == array_values(values'[last'.self], array'[last'.self])

\* array() after reverse is applied to the array once more.
ReversedAgain ==
    array_values(reverse(This(values'[last'.self], array'[last'.self]),
                         last'.self).this.map,
                 reverse(This(values'[last'.self], array'[last'.self]),
                         last'.self).this.array)

C40_RefinesSequence ==
    [][/\ last'.op \in {"push", "unshift", "pop", "shift", "reverse"}
            => /\ array'[last'.self].kind = "Vector"
               /\ length(array'[last'.self]) = Len(Sequence)
       /\ last'.op = "push"
            => /\ Sequence = last'.old \o last'.args
               /\ last'.ret = Ok(Number(Len(last'.old) + Len(last'.args)))
       /\ last'.op = "unshift"
            => /\ Sequence = last'.args \o last'.old
               /\ last'.ret = Ok(Number(Len(last'.old) + Len(last'.args)))
       /\ (last'.op = "pop" /\ last'.old # <<>>)
            => /\ Sequence = SubSeq(last'.old, 1, Len(last'.old) - 1)
               /\ last'.ret = Ok(last'.old[Len(last'.old)])
       /\ (last'.op = "shift" /\ last'.old # <<>>)
            => /\ Sequence = Tail(last'.old)
               /\ last'.ret = Ok(Head(last'.old))
       /\ (last'.op \in {"pop", "shift"} /\ last'.old = <<>>)
            => /\ last'.ret = Ok(Undefined)
               /\ heap' = heap
       /\ last'.op = "reverse"
            => /\ Sequence = Reversed(last'.old)
               /\ last'.ret = Ok(Ref(last'.self))
               /\ ReversedAgain = last'.old
      ]_vars

\* ["y", "x", "x"].reverse() left ["x", "x", "y"].
C40_Witness ==
    /\ last.op = "reverse"
    /\ last.old = <<"y", "x", "x">>
    /\ array_values(values[1], array[1]) = <<"x", "x", "y">>
    /\ last.ret = Ok(Ref(1))

====
